---- MODULE Spec2Model ----
(***************************************************************************)
(* Model of the enhanced QR code server: the core engine QRCodeEnhanced    *)
(* (src/src/qr-utils.ts), the argument schemas (src/src/types.ts) and the  *)
(* tool handlers of EnhancedQRCodeMCPServer (src/src/index.ts).            *)
(*                                                                         *)
(* Strings are sequences of tokens.  A token is either one character       *)
(* (" ", "\n", "a"), a block of non-whitespace characters ("K", "L") or a  *)
(* literal fragment of a payload grammar ("WIFI:T:"); TokLen gives the     *)
(* number of characters a token stands for, so a string of 4297 characters *)
(* is a short sequence.  An absent (undefined) property of a JavaScript    *)
(* object is a field missing from the record's DOMAIN.                     *)
(***************************************************************************)
EXTENDS Integers, Sequences, FiniteSets, TLC

VARIABLES statistics, templates, files, batch, calls, snapshot, last

vars == <<statistics, templates, files, batch, calls, snapshot, last>>

-----------------------------------------------------------------------------
(* Bounds of the model                                                     *)

MaxGenerated == 2
MaxClock == 1
MaxOverflow == 1
MaxInFlight == 2
MaxCalls == 3
MaxEncoded == 1

(* Program constants                                                       *)

MaxContentLength == 4296
WindowLimit == 1000
MinSize == 50
MaxSize == 2000
MinMargin == 0
MaxMargin == 10
DefaultSize == 300
DefaultMargin == 1
MinLogoPct == 10
MaxLogoPct == 40
FallbackLogoPct == 20
FallbackCanvas == 300
MinCanvasDim == 200
MinContrast == 128
LongContent == 1000

-----------------------------------------------------------------------------
(* Strings                                                                 *)

EmptyRec == [k \in {} |-> k]

Has(r, f) == f \in DOMAIN r

Merge(a, b) ==
  [k \in DOMAIN a \cup DOMAIN b |-> IF k \in DOMAIN b THEN b[k] ELSE a[k]]

IsWs(t) == t \in {" ", "\n"}

TokLen(t) ==
  CASE t \in {" ", "\n", "a", ";"} -> 1
    [] t = "K" -> LongContent
    [] t = "L" -> MaxContentLength - 1
    [] t \in {"N:", ";;"} -> 2
    [] t \in {"FN:", ";S:", ";P:", ";H:", "WEP", "WPA"} -> 3
    [] t \in {"ORG:", "TEL:", "URL:", "ADR:", "true", "WPA2", "WPA3", ";;;\n"} -> 4
    [] t \in {"ADR:;;", "EMAIL:", "TITLE:", "nopass"} -> 6
    [] t \in {"false", "a@a.a"} -> 5
    [] t = "https://a.a" -> 11
    [] t = "http://" -> 7
    [] t = "https://" -> 8
    [] t = "WIFI:T:" -> 7
    [] t \in {"DTSTART:", "SUMMARY:", "YYYYMMDD"} -> 8
    [] t \in {"DTEND:"} -> 6
    [] t \in {"LOCATION:", "END:VCARD"} -> 9
    [] t = "END:VEVENT" -> 10
    [] t = "BEGIN:VEVENT\n" -> 13
    [] t = "DESCRIPTION:" -> 12
    [] t = "YYYYMMDDTHHMMSSZ" -> 16
    [] t = "BEGIN:VCARD\nVERSION:3.0\n" -> 24

RECURSIVE StrLen(_)
StrLen(s) == IF s = <<>> THEN 0 ELSE TokLen(Head(s)) + StrLen(Tail(s))

RECURSIVE TrimStart(_)
TrimStart(s) ==
  IF s # <<>> /\ IsWs(Head(s)) THEN TrimStart(Tail(s)) ELSE s

RECURSIVE TrimEnd(_)
TrimEnd(s) ==
  IF s # <<>> /\ IsWs(s[Len(s)]) THEN TrimEnd(SubSeq(s, 1, Len(s) - 1)) ELSE s

Trim(s) == TrimEnd(TrimStart(s))

\* the last n elements of an array: Array.prototype.slice(-n)
SliceLast(s, n) == IF Len(s) <= n THEN s ELSE SubSeq(s, Len(s) - n + 1, Len(s))

-----------------------------------------------------------------------------
(* Errors: an error is the name of its class (code for the QRError         *)
(* subclasses, the JavaScript class name otherwise)                        *)

\* the catch of the tool-call handler without its test for QRAnalysisError
ErrorTypeOfNoAnalysis(code) ==
  CASE code = "VALIDATION_ERROR" -> "ValidationError"
    [] code = "GENERATION_ERROR" -> "GenerationError"
    [] OTHER -> "UnknownError"

ErrorTypeOf(code) ==
  CASE code = "VALIDATION_ERROR" -> "ValidationError"
    [] code = "GENERATION_ERROR" -> "GenerationError"
    [] code = "ANALYSIS_ERROR" -> "AnalysisError"
    [] OTHER -> "UnknownError"

-----------------------------------------------------------------------------
(* Schemas (zod): Parse returns ok and the data with defaults filled in    *)

HexColors == {"#000000", "#ffffff", "#1a365d", "#e53e3e", "#fff5f5", "#c53030"}

Formats == {"png", "svg", "pdf", "jpeg"}

QRConfigSchemaOk(a) ==
  /\ Has(a, "size") => a.size >= MinSize /\ a.size <= MaxSize
  /\ Has(a, "margin") => a.margin >= MinMargin /\ a.margin <= MaxMargin
  /\ Has(a, "errorCorrectionLevel") => a.errorCorrectionLevel \in {"L", "M", "Q", "H"}
  /\ Has(a, "format") => a.format \in Formats

QRConfigSchemaData(a) ==
  [size |-> IF Has(a, "size") THEN a.size ELSE DefaultSize,
   margin |-> IF Has(a, "margin") THEN a.margin ELSE DefaultMargin,
   errorCorrectionLevel |->
     IF Has(a, "errorCorrectionLevel") THEN a.errorCorrectionLevel ELSE "M",
   format |-> IF Has(a, "format") THEN a.format ELSE "png"]

QRStyleSchemaOk(s) ==
  /\ Has(s, "foregroundColor") => s.foregroundColor \in HexColors
  /\ Has(s, "backgroundColor") => s.backgroundColor \in HexColors
  /\ Has(s, "logoSize") => s.logoSize >= MinLogoPct /\ s.logoSize <= MaxLogoPct

BatchQRSchemaOk(a) ==
  /\ Has(a, "items")
  /\ \A i \in 1..Len(a.items) :
       /\ Has(a.items[i], "content")
       /\ Has(a.items[i], "style") => QRStyleSchemaOk(a.items[i].style)
  /\ Has(a, "format") => a.format \in {"png", "svg", "pdf"}
  /\ Has(a, "baseConfig") => QRConfigSchemaOk(a.baseConfig)

-----------------------------------------------------------------------------
(* Content validator                                                       *)

\* validateContent without its length check
validateContentNoLimit(content) ==
  IF content = <<>> \/ Len(Trim(content)) = 0
    THEN [ok |-> FALSE, code |-> "VALIDATION_ERROR"]
  ELSE [ok |-> TRUE, code |-> ""]

validateContent(content) ==
  IF content = <<>> \/ Len(Trim(content)) = 0
    THEN [ok |-> FALSE, code |-> "VALIDATION_ERROR"]
  ELSE IF StrLen(content) > MaxContentLength
    THEN [ok |-> FALSE, code |-> "VALIDATION_ERROR"]
  ELSE [ok |-> TRUE, code |-> ""]

-----------------------------------------------------------------------------
(* Statistics accumulator                                                  *)

Bump(m, k) == Merge(m, [x \in {k} |-> (IF k \in DOMAIN m THEN m[k] ELSE 0) + 1])

\* updateStatistics without the increment of totalGenerated
updateStatisticsNoCount(st, result, generationTime, now) ==
  [st EXCEPT
     !.byFormat = Bump(st.byFormat, result.format),
     !.generationTimes =
        SliceLast(Append(st.generationTimes, generationTime), WindowLimit),
     !.sizes = SliceLast(Append(st.sizes, result.size), WindowLimit),
     !.lastGenerated = now]

\* updateStatistics truncating with slice(0, 1000): a full window keeps its
\* oldest samples and loses the new one
updateStatisticsKeepOldest(st, result, generationTime, now) ==
  LET pushedTimes == Append(st.generationTimes, generationTime)
      pushedSizes == Append(st.sizes, result.size)
  IN [st EXCEPT
        !.totalGenerated = st.totalGenerated + 1,
        !.byFormat = Bump(st.byFormat, result.format),
        !.generationTimes =
           IF Len(pushedTimes) > WindowLimit
             THEN SubSeq(pushedTimes, 1, WindowLimit) ELSE pushedTimes,
        !.sizes =
           IF Len(pushedSizes) > WindowLimit
             THEN SubSeq(pushedSizes, 1, WindowLimit) ELSE pushedSizes,
        !.lastGenerated = now]

\* updateStatistics setting the count of the format to 1 instead of adding
\* 1 to it
updateStatisticsFormatOnce(st, result, generationTime, now) ==
  LET pushedTimes == Append(st.generationTimes, generationTime)
      pushedSizes == Append(st.sizes, result.size)
  IN [st EXCEPT
        !.totalGenerated = st.totalGenerated + 1,
        !.byFormat = Merge(st.byFormat, [x \in {result.format} |-> 1]),
        !.generationTimes =
           IF Len(pushedTimes) > WindowLimit
             THEN SliceLast(pushedTimes, WindowLimit) ELSE pushedTimes,
        !.sizes =
           IF Len(pushedSizes) > WindowLimit
             THEN SliceLast(pushedSizes, WindowLimit) ELSE pushedSizes,
        !.lastGenerated = now]

updateStatistics(st, result, generationTime, now) ==
  LET pushedTimes == Append(st.generationTimes, generationTime)
      pushedSizes == Append(st.sizes, result.size)
  IN [st EXCEPT
        !.totalGenerated = st.totalGenerated + 1,
        !.byFormat = Bump(st.byFormat, result.format),
        !.generationTimes =
           IF Len(pushedTimes) > WindowLimit
             THEN SliceLast(pushedTimes, WindowLimit) ELSE pushedTimes,
        !.sizes =
           IF Len(pushedSizes) > WindowLimit
             THEN SliceLast(pushedSizes, WindowLimit) ELSE pushedSizes,
        !.lastGenerated = now]

InitialStatistics ==
  [totalGenerated |-> 0, byFormat |-> EmptyRec, byTemplate |-> EmptyRec,
   generationTimes |-> <<>>, sizes |-> <<>>, lastGenerated |-> 0]

-----------------------------------------------------------------------------
(* The world outside the process: files that exist before any call, and    *)
(* the outcome of one call's external steps                                *)

FsExists(p) == p \in {"/logo.png", "/corrupt-logo.png"}

LoadImageOk(p) == p = "/logo.png"

\* elapsed time, artifact size, and whether the clock has advanced since the
\* previous recorded generation
Samples ==
  {[time |-> 3, bytes |-> 100, tick |-> 0], [time |-> 7, bytes |-> 250, tick |-> 1]}

Min(a, b) == IF a < b THEN a ELSE b

\* what one generation call meets: which external step fails (if any) and
\* the sample it records
\* (a call that fails records no sample: one environment per failure)
GenEnv ==
  {env \in [fail : {"none", "encode", "write"}, sample : Samples] :
     env.fail # "none" => env.sample.tick = 0}

Now(st, env) == Min(st.lastGenerated + env.sample.tick, MaxClock)

-----------------------------------------------------------------------------
(* Outcomes of a core call: returned (ok) or thrown (code), with what the  *)
(* call did on the way: encoder invocations, logo footprints computed by   *)
(* the compositor, files written                                           *)

Thrown(code, enc, logo) ==
  [ok |-> FALSE, code |-> code, enc |-> enc, logo |-> logo,
   written |-> <<>>, result |-> EmptyRec]

Returned(result, file, enc, logo) ==
  [ok |-> TRUE, code |-> "", enc |-> enc, logo |-> logo,
   written |-> <<file>>, result |-> result]

Opt(name, r, f) == IF Has(r, f) THEN [x \in {name} |-> r[f]] ELSE EmptyRec

generateOutputPath(nfiles, format) == [id |-> nfiles + 1, ext |-> format]

generatePNG(content, config, outputPath, env) ==
  LET call == [fn |-> "QRCode.toBuffer", content |-> content,
               opts |-> Merge(Opt("width", config, "size"),
                              Opt("margin", config, "margin"))]
  IN IF env.fail = "encode" THEN Thrown("Error", <<call>>, <<>>)
     ELSE IF env.fail = "write" THEN Thrown("Error", <<call>>, <<>>)
     ELSE Returned([success |-> TRUE, filePath |-> outputPath, format |-> "png",
                    size |-> env.sample.bytes, contentType |-> "image/png",
                    originalContent |-> content],
                   [path |-> outputPath, kind |-> "png", content |-> content],
                   <<call>>, <<>>)

generateSVG(content, config, outputPath, env) ==
  LET call == [fn |-> "QRCodeSVG", content |-> content,
               opts |-> Merge(Opt("width", config, "size"),
                              IF Has(config, "margin")
                                THEN [padding |-> config.margin * 10]
                                ELSE EmptyRec)]
  IN IF env.fail = "encode" THEN Thrown("Error", <<call>>, <<>>)
     ELSE IF env.fail = "write" THEN Thrown("Error", <<call>>, <<>>)
     ELSE Returned([success |-> TRUE, filePath |-> outputPath, format |-> "svg",
                    size |-> env.sample.bytes, contentType |-> "image/svg+xml",
                    originalContent |-> content],
                   [path |-> outputPath, kind |-> "svg", content |-> content],
                   <<call>>, <<>>)

\* the outcome of a call that reached generateBasic / generateStyled with
\* `content`, together with the statistics it leaves; style and config are
\* the arguments the call was given, fault the external step the world made
\* fail for it
Core(out, st, content) ==
  [ok |-> out.ok, code |-> out.code, enc |-> out.enc, logo |-> out.logo,
   written |-> out.written, result |-> out.result, stats |-> st,
   called |-> TRUE, payload |-> content, style |-> EmptyRec, config |-> EmptyRec,
   fault |-> "none"]

\* the outcome of a call that threw before any payload reached them
Early(code, st) ==
  [ok |-> FALSE, code |-> code, enc |-> <<>>, logo |-> <<>>,
   written |-> <<>>, result |-> EmptyRec, stats |-> st,
   called |-> FALSE, payload |-> <<>>, style |-> EmptyRec, config |-> EmptyRec,
   fault |-> "none"]

\* the catch clause of generateBasic / generateStyled: whatever was thrown
\* in the try block is rethrown as a QRGenerationError
CatchAsGenerationError(out) ==
  IF out.ok THEN out ELSE [out EXCEPT !.code = "GENERATION_ERROR"]

generateBasicTry(st, nfiles, content, config, env) ==
  LET v == validateContent(content)
      finalConfig == config
      outputPath == generateOutputPath(nfiles,
                      IF Has(finalConfig, "format") THEN finalConfig.format ELSE "png")
      r == IF Has(finalConfig, "format") /\ finalConfig.format = "svg"
             THEN generateSVG(content, finalConfig, outputPath, env)
             ELSE generatePNG(content, finalConfig, outputPath, env)
  IN IF ~v.ok THEN Core(Thrown(v.code, <<>>, <<>>), st, content)
     ELSE IF ~r.ok THEN Core(r, st, content)
     ELSE Core(r, updateStatistics(st, r.result, env.sample.time, Now(st, env)), content)

generateBasic(st, nfiles, content, config, env) ==
  [CatchAsGenerationError(generateBasicTry(st, nfiles, content, config, env))
     EXCEPT !.config = config, !.fault = env.fail]

\* applyAdvancedStyling without the try/catch around the logo and without
\* the pathExists test: a logo that cannot be loaded aborts the generation
applyAdvancedStylingLogoFatal(content, style, config, outputPath, enc, env) ==
  LET canvas == IF Has(config, "size") /\ config.size # 0
                  THEN config.size ELSE FallbackCanvas
      logo == IF Has(style, "logoPath")
                THEN <<[canvas |-> canvas,
                        logoSize |-> IF Has(style, "logoSize") /\ style.logoSize # 0
                                       THEN style.logoSize ELSE FallbackLogoPct]>>
                ELSE <<>>
  IN IF Has(style, "logoPath")
          /\ ~(FsExists(style.logoPath) /\ LoadImageOk(style.logoPath))
       THEN Thrown("Error", enc, <<>>)
     ELSE IF env.fail = "write" THEN Thrown("Error", enc, logo)
     ELSE Returned([success |-> TRUE, filePath |-> outputPath, format |-> "png",
                    size |-> env.sample.bytes, contentType |-> "image/png",
                    originalContent |-> <<"styled content">>],
                   Merge([path |-> outputPath, kind |-> "png", content |-> content],
                         Merge(Opt("dark", enc[1].opts, "dark"),
                               Opt("light", enc[1].opts, "light"))),
                   enc, logo)

applyAdvancedStyling(content, style, config, outputPath, enc, env) ==
  LET canvas == IF Has(config, "size") /\ config.size # 0
                  THEN config.size ELSE FallbackCanvas
      tryLogo == Has(style, "logoPath") /\ FsExists(style.logoPath)
      logo == IF tryLogo /\ LoadImageOk(style.logoPath)
                THEN <<[canvas |-> canvas,
                        logoSize |-> IF Has(style, "logoSize") /\ style.logoSize # 0
                                       THEN style.logoSize ELSE FallbackLogoPct]>>
                ELSE <<>>
  IN IF env.fail = "write" THEN Thrown("Error", enc, logo)
     ELSE Returned([success |-> TRUE, filePath |-> outputPath, format |-> "png",
                    size |-> env.sample.bytes, contentType |-> "image/png",
                    originalContent |-> <<"styled content">>],
                   Merge([path |-> outputPath, kind |-> "png", content |-> content],
                         Merge(Opt("dark", enc[1].opts, "dark"),
                               Opt("light", enc[1].opts, "light"))),
                   enc, logo)

generateStyledTry(st, nfiles, content, style, config, env) ==
  LET v == validateContent(content)
      finalStyle == style
      finalConfig == config
      outputPath == generateOutputPath(nfiles,
                      IF Has(finalConfig, "format") THEN finalConfig.format ELSE "png")
      call == [fn |-> "QRCode.toDataURL", content |-> content,
               opts |-> Merge(Merge(Opt("width", finalConfig, "size"),
                                    Opt("margin", finalConfig, "margin")),
                              Merge(Opt("dark", finalStyle, "foregroundColor"),
                                    Opt("light", finalStyle, "backgroundColor")))]
      r == applyAdvancedStyling(content, finalStyle, finalConfig, outputPath,
                                <<call>>, env)
  IN IF ~v.ok THEN Core(Thrown(v.code, <<>>, <<>>), st, content)
     ELSE IF env.fail = "encode" THEN Core(Thrown("Error", <<call>>, <<>>), st, content)
     ELSE IF ~r.ok THEN Core(r, st, content)
     ELSE Core(r, updateStatistics(st, r.result, env.sample.time, Now(st, env)), content)

generateStyled(st, nfiles, content, style, config, env) ==
  [CatchAsGenerationError(generateStyledTry(st, nfiles, content, style, config, env))
     EXCEPT !.style = style, !.config = config, !.fault = env.fail]

-----------------------------------------------------------------------------
(* Payload encoders                                                        *)

Truthy(s) == s # <<>>

OrEmpty(r, f) == IF Has(r, f) THEN r[f] ELSE <<>>

\* buildWiFiContent leaving the P field out when there is no password
buildWiFiContentOmitEmpty(wifi) ==
  <<"WIFI:T:", wifi.security, ";S:">> \o wifi.ssid
    \o (IF Has(wifi, "password") /\ Truthy(wifi.password)
          THEN <<";P:">> \o wifi.password ELSE <<>>)
    \o <<";H:", IF wifi.hidden THEN "true" ELSE "false", ";;">>

buildWiFiContent(wifi) ==
  <<"WIFI:T:", wifi.security, ";S:">> \o wifi.ssid \o <<";P:">>
    \o OrEmpty(wifi, "password")
    \o <<";H:", IF wifi.hidden THEN "true" ELSE "false", ";;">>

VCardLine(vcard, f, tag) ==
  IF Has(vcard, f) /\ Truthy(vcard[f]) THEN <<tag>> \o vcard[f] \o <<"\n">> ELSE <<>>

buildVCardContent(vcard) ==
  <<"BEGIN:VCARD\nVERSION:3.0\n">>
    \o <<"FN:">> \o vcard.firstName \o <<" ">> \o vcard.lastName \o <<"\n">>
    \o <<"N:">> \o vcard.lastName \o <<";">> \o vcard.firstName \o <<";;;\n">>
    \o VCardLine(vcard, "organization", "ORG:")
    \o VCardLine(vcard, "title", "TITLE:")
    \o VCardLine(vcard, "phone", "TEL:")
    \o VCardLine(vcard, "email", "EMAIL:")
    \o VCardLine(vcard, "website", "URL:")
    \o (IF Has(vcard, "address")
          THEN <<"ADR:;;">> \o OrEmpty(vcard.address, "street") \o <<";">>
                 \o OrEmpty(vcard.address, "city") \o <<";">>
                 \o OrEmpty(vcard.address, "state") \o <<";">>
                 \o OrEmpty(vcard.address, "zip") \o <<";">>
                 \o OrEmpty(vcard.address, "country") \o <<"\n">>
          ELSE <<>>)
    \o <<"END:VCARD">>

\* new Date(dateStr) is a valid date for an ISO timestamp and Invalid Date
\* otherwise; toISOString throws RangeError on an Invalid Date
IsDate(dateStr) == dateStr = <<"2024-01-15T10:00:00Z">>

formatDateForEvent(dateStr, allDay) ==
  IF ~IsDate(dateStr) THEN [ok |-> FALSE, code |-> "RangeError", text |-> <<>>]
  ELSE IF allDay THEN [ok |-> TRUE, code |-> "", text |-> <<"YYYYMMDD">>]
  ELSE [ok |-> TRUE, code |-> "", text |-> <<"YYYYMMDDTHHMMSSZ">>]

EventLine(event, f, tag) ==
  IF Has(event, f) /\ Truthy(event[f]) THEN <<tag>> \o event[f] \o <<"\n">> ELSE <<>>

buildEventContent(event) ==
  LET start == formatDateForEvent(event.startDate, event.allDay)
      hasEnd == Has(event, "endDate") /\ Truthy(event.endDate)
      end == IF hasEnd THEN formatDateForEvent(event.endDate, event.allDay)
             ELSE [ok |-> TRUE, code |-> "", text |-> <<>>]
  IN IF ~start.ok THEN [ok |-> FALSE, code |-> start.code, content |-> <<>>]
     ELSE IF ~end.ok THEN [ok |-> FALSE, code |-> end.code, content |-> <<>>]
     ELSE [ok |-> TRUE, code |-> "",
           content |->
             <<"BEGIN:VEVENT\n", "SUMMARY:">> \o event.title \o <<"\n">>
               \o <<"DTSTART:">> \o start.text \o <<"\n">>
               \o (IF hasEnd THEN <<"DTEND:">> \o end.text \o <<"\n">> ELSE <<>>)
               \o EventLine(event, "description", "DESCRIPTION:")
               \o EventLine(event, "location", "LOCATION:")
               \o <<"END:VEVENT">>]

\* z.string().email() / z.string().url(), on the strings the model draws
IsEmail(s) == s = <<"a@a.a">>

IsUrl(s) == s = <<"https://a.a">>

VCardSchemaOk(a) ==
  /\ Has(a, "firstName") /\ Has(a, "lastName")
  /\ Has(a, "email") => IsEmail(a.email)
  /\ Has(a, "website") => IsUrl(a.website)

WiFiSchemaOk(a) ==
  /\ Has(a, "ssid")
  /\ Has(a, "security") => a.security \in {"WEP", "WPA", "WPA2", "WPA3", "nopass"}

WiFiSchemaData(a) ==
  Merge([security |-> "WPA2", hidden |-> FALSE],
        [k \in DOMAIN a \cap {"ssid", "password", "security", "hidden"} |-> a[k]])

EventSchemaOk(a) == Has(a, "title") /\ Has(a, "startDate")

EventSchemaData(a) ==
  Merge([allDay |-> FALSE],
        [k \in DOMAIN a \cap {"title", "description", "location", "startDate",
                              "endDate", "allDay"} |-> a[k]])

generateVCard(st, nfiles, vcard, config, env) ==
  generateBasic(st, nfiles, buildVCardContent(vcard), config, env)

generateWiFi(st, nfiles, wifi, config, env) ==
  generateBasic(st, nfiles, buildWiFiContent(wifi), config, env)

generateEvent(st, nfiles, event, config, env) ==
  LET b == buildEventContent(event)
  IN IF ~b.ok THEN Early(b.code, st)
     ELSE generateBasic(st, nfiles, b.content, config, env)

-----------------------------------------------------------------------------
(* Template registry: a Map, that is a sequence of entries in insertion    *)
(* order with at most one entry per key                                    *)

MapHas(m, key) == \E i \in 1..Len(m) : m[i].key = key

MapGet(m, key) == m[CHOOSE i \in 1..Len(m) : m[i].key = key].value

\* Map.prototype.set: an existing key keeps its position
MapSet(m, key, value) ==
  IF MapHas(m, key)
    THEN [i \in 1..Len(m) |->
            IF m[i].key = key THEN [key |-> key, value |-> value] ELSE m[i]]
    ELSE Append(m, [key |-> key, value |-> value])

\* Array.from(map.values())
MapValues(m) == [i \in 1..Len(m) |-> m[i].value]

BusinessTemplate ==
  [name |-> "business", category |-> "business",
   style |-> [foregroundColor |-> "#1a365d", backgroundColor |-> "#ffffff",
              cornerRadius |-> 5, dotStyle |-> "square", borderWidth |-> 2,
              borderColor |-> "#1a365d"],
   config |-> [size |-> 300, margin |-> 2, errorCorrectionLevel |-> "M",
               format |-> "png"]]

SocialTemplate ==
  [name |-> "social", category |-> "social",
   style |-> [foregroundColor |-> "#e53e3e", backgroundColor |-> "#fff5f5",
              cornerRadius |-> 15, dotStyle |-> "round",
              gradientStart |-> "#e53e3e", gradientEnd |-> "#c53030"],
   config |-> [size |-> 400, margin |-> 1, errorCorrectionLevel |-> "M",
               format |-> "png"]]

\* addTemplate with a plain push: an existing name gets a second entry
addTemplateAppend(tpls, template) ==
  Append(tpls, [key |-> template.name, value |-> template])

addTemplate(tpls, template) == MapSet(tpls, template.name, template)

\* initializeDefaultTemplates: this.templates.set('business', ...), then
\* this.templates.set('social', ...)
DefaultTemplates ==
  MapSet(MapSet(<<>>, "business", BusinessTemplate), "social", SocialTemplate)

getTemplates(tpls) == MapValues(tpls)

\* generateFromTemplate counting the use before the styled generation, so
\* that a failed generation is counted too
generateFromTemplateCountFirst(st, tpls, nfiles, content, templateName, overrides, env) ==
  IF ~MapHas(tpls, templateName)
    THEN Early("VALIDATION_ERROR", st)
  ELSE
    LET template == MapGet(tpls, templateName)
        counted == [st EXCEPT !.byTemplate = Bump(st.byTemplate, templateName)]
    IN generateStyled(counted, nfiles, content, Merge(template.style, overrides),
                      Merge(template.config, overrides), env)

\* generateFromTemplate spreading the template over the overrides:
\* { ...overrides, ...template.style }
generateFromTemplateTemplateWins(st, tpls, nfiles, content, templateName, overrides, env) ==
  IF ~MapHas(tpls, templateName)
    THEN Early("VALIDATION_ERROR", st)
  ELSE
    LET template == MapGet(tpls, templateName)
        r == generateStyled(st, nfiles, content, Merge(overrides, template.style),
                            Merge(overrides, template.config), env)
    IN IF ~r.ok THEN r
       ELSE [r EXCEPT !.stats.byTemplate = Bump(r.stats.byTemplate, templateName)]

generateFromTemplate(st, tpls, nfiles, content, templateName, overrides, env) ==
  IF ~MapHas(tpls, templateName)
    THEN Early("VALIDATION_ERROR", st)
  ELSE
    LET template == MapGet(tpls, templateName)
        mergedStyle == Merge(template.style, overrides)
        mergedConfig == Merge(template.config, overrides)
        r == generateStyled(st, nfiles, content, mergedStyle, mergedConfig, env)
    IN IF ~r.ok THEN r
       ELSE [r EXCEPT !.stats.byTemplate = Bump(r.stats.byTemplate, templateName)]

-----------------------------------------------------------------------------
(* Decoder adapter and quality assessor.  An image file is described by    *)
(* what the external primitives report about it.                           *)

\* the catch clause of decodeFromImage / analyzeQuality
CatchAsAnalysisError(out) ==
  IF out.thrown THEN [out EXCEPT !.code = "ANALYSIS_ERROR"] ELSE out

AnalysisThrown(code) ==
  [thrown |-> TRUE, code |-> code, result |-> EmptyRec]

AnalysisReturned(result) ==
  [thrown |-> FALSE, code |-> "", result |-> result]

\* decodeFromImage reporting a missing file as a soft failure
decodeFromImageTrySoft(img) ==
  IF ~img.exists
    THEN AnalysisReturned([success |-> FALSE, error |-> "Image file not found"])
  ELSE IF ~img.readable THEN AnalysisThrown("Error")
  ELSE IF ~img.hasQR
    THEN AnalysisReturned([success |-> FALSE, error |-> "No QR code found in image"])
  ELSE AnalysisReturned([success |-> TRUE, content |-> img.content, format |-> "text"])

decodeFromImageTry(img) ==
  IF ~img.exists THEN AnalysisThrown("ANALYSIS_ERROR")
  ELSE IF ~img.readable THEN AnalysisThrown("Error")
  ELSE IF ~img.hasQR
    THEN AnalysisReturned([success |-> FALSE, error |-> "No QR code found in image"])
  ELSE AnalysisReturned([success |-> TRUE, content |-> img.content, format |-> "text"])

decodeFromImage(img) == CatchAsAnalysisError(decodeFromImageTry(img))

\* assessQuality with the resolution test off by one (<= 200)
assessQualityOffByOne(metadata, stats, content) ==
  LET lowRes == metadata.width <= MinCanvasDim \/ metadata.height <= MinCanvasDim
      score1 == IF lowRes THEN 100 - 20 ELSE 100
      lowContrast == stats.max - stats.min < MinContrast
      score2 == IF lowContrast THEN score1 - 30 ELSE score1
      long == StrLen(content) > LongContent
      score3 == IF long THEN score2 - 10 ELSE score2
  IN [score |-> IF score3 > 0 THEN score3 ELSE 0,
      readability |-> IF score3 >= 90 THEN "excellent"
                      ELSE IF score3 >= 70 THEN "good"
                      ELSE IF score3 >= 50 THEN "fair"
                      ELSE "poor",
      recommendations |->
        (IF lowRes THEN <<"resolution">> ELSE <<>>)
          \o (IF lowContrast THEN <<"contrast">> ELSE <<>>)
          \o (IF long THEN <<"length">> ELSE <<>>)]

\* assessQuality with deductions of 40, 50 and 10: an image with all three
\* faults scores 0
assessQualitySteep(metadata, stats, content) ==
  LET lowRes == metadata.width < MinCanvasDim \/ metadata.height < MinCanvasDim
      lowContrast == stats.max - stats.min < MinContrast
      long == StrLen(content) > LongContent
      score3 == 100 - (IF lowRes THEN 40 ELSE 0) - (IF lowContrast THEN 50 ELSE 0)
                    - (IF long THEN 10 ELSE 0)
  IN [score |-> IF score3 > 0 THEN score3 ELSE 0,
      readability |-> IF score3 >= 90 THEN "excellent"
                      ELSE IF score3 >= 70 THEN "good"
                      ELSE IF score3 >= 50 THEN "fair"
                      ELSE "poor",
      recommendations |->
        (IF lowRes THEN <<"resolution">> ELSE <<>>)
          \o (IF lowContrast THEN <<"contrast">> ELSE <<>>)
          \o (IF long THEN <<"length">> ELSE <<>>)]

assessQuality(metadata, stats, content) ==
  LET lowRes == metadata.width < MinCanvasDim \/ metadata.height < MinCanvasDim
      score1 == IF lowRes THEN 100 - 20 ELSE 100
      recs1 == IF lowRes THEN <<"resolution">> ELSE <<>>
      contrast == stats.max - stats.min
      lowContrast == contrast < MinContrast
      score2 == IF lowContrast THEN score1 - 30 ELSE score1
      recs2 == IF lowContrast THEN Append(recs1, "contrast") ELSE recs1
      long == StrLen(content) > LongContent
      score3 == IF long THEN score2 - 10 ELSE score2
      recs3 == IF long THEN Append(recs2, "length") ELSE recs2
      readability == IF score3 >= 90 THEN "excellent"
                     ELSE IF score3 >= 70 THEN "good"
                     ELSE IF score3 >= 50 THEN "fair"
                     ELSE "poor"
  IN [score |-> IF score3 > 0 THEN score3 ELSE 0,
      readability |-> readability,
      recommendations |-> recs3]

analyzeQualityTry(img) ==
  LET decodeResult == decodeFromImage(img)
  IN IF decodeResult.thrown THEN decodeResult
     ELSE IF ~decodeResult.result.success
       THEN AnalysisReturned(
              Merge(decodeResult.result,
                    [quality |-> [score |-> 0, readability |-> "poor",
                                  recommendations |-> <<"undecodable", "check">>]]))
     ELSE AnalysisReturned(
            Merge(decodeResult.result,
                  [quality |-> assessQuality([width |-> img.width, height |-> img.height],
                                             [max |-> img.max, min |-> img.min],
                                             decodeResult.result.content)]))

analyzeQuality(img) == CatchAsAnalysisError(analyzeQualityTry(img))

-----------------------------------------------------------------------------
(* Tool handlers (index.ts).  Each returns the outcome of the call; the    *)
(* request handler turns a thrown error into an error response.            *)

handleGenerateBasic(st, nfiles, args, env) ==
  IF ~QRConfigSchemaOk(args) THEN Early("VALIDATION_ERROR", st)
  ELSE generateBasic(st, nfiles, args.content, QRConfigSchemaData(args), env)

handleGenerateStyled(st, nfiles, args, env) ==
  generateStyled(st, nfiles, args.content,
                 IF Has(args, "style") THEN args.style ELSE EmptyRec,
                 IF Has(args, "config") THEN args.config ELSE EmptyRec, env)

handleGenerateVCard(st, nfiles, args, env) ==
  IF ~VCardSchemaOk(args) THEN Early("VALIDATION_ERROR", st)
  ELSE generateVCard(st, nfiles,
                     [k \in DOMAIN args \ {"config"} |-> args[k]],
                     IF Has(args, "config") THEN args.config ELSE EmptyRec, env)

handleGenerateWiFi(st, nfiles, args, env) ==
  IF ~WiFiSchemaOk(args) THEN Early("VALIDATION_ERROR", st)
  ELSE generateWiFi(st, nfiles, WiFiSchemaData(args),
                    IF Has(args, "config") THEN args.config ELSE EmptyRec, env)

handleGenerateEvent(st, nfiles, args, env) ==
  IF ~EventSchemaOk(args) THEN Early("VALIDATION_ERROR", st)
  ELSE generateEvent(st, nfiles, EventSchemaData(args),
                     IF Has(args, "config") THEN args.config ELSE EmptyRec, env)

handleGenerateFromTemplate(st, tpls, nfiles, args, env) ==
  generateFromTemplate(st, tpls, nfiles, args.content, args.templateName,
                       IF Has(args, "overrides") THEN args.overrides ELSE EmptyRec, env)

\* the format the caller asked for ("" when none)
Requested(cfg) == IF Has(cfg, "format") THEN cfg.format ELSE ""

ConfigOf(args) == IF Has(args, "config") THEN args.config ELSE EmptyRec

\* CallToolRequestSchema handler: the response to a generation tool call
Respond(tool, args, format, out) ==
  [tool |-> tool,
   args |-> args,
   isError |-> ~out.ok,
   errorType |-> IF out.ok THEN "" ELSE ErrorTypeOf(out.code),
   code |-> out.code,
   format |-> format,
   called |-> out.called,
   payload |-> out.payload,
   style |-> out.style,
   config |-> out.config,
   fault |-> out.fault,
   enc |-> out.enc,
   logo |-> out.logo,
   written |-> out.written,
   result |-> out.result,
   done |-> TRUE, results |-> <<>>, successful |-> 0, failed |-> 0]

NoCall ==
  [tool |-> "none", args |-> EmptyRec, isError |-> FALSE, errorType |-> "",
   code |-> "", format |-> "", called |-> FALSE, payload |-> <<>>,
   style |-> EmptyRec, config |-> EmptyRec, fault |-> "none", enc |-> <<>>,
   logo |-> <<>>, written |-> <<>>, result |-> EmptyRec,
   done |-> TRUE, results |-> <<>>, successful |-> 0, failed |-> 0]

\* handleGenerateBatch: the config every item is generated with,
\* { ...args.baseConfig, format: args.format }
batchItemConfig(args) ==
  LET base == IF Has(args, "baseConfig") THEN args.baseConfig ELSE EmptyRec
  IN Merge([k \in DOMAIN base \ {"format"} |-> base[k]],
           IF Has(args, "format") THEN [format |-> args.format] ELSE EmptyRec)

\* handleGenerateBatch: one turn of the item loop, item index b.i (from 0)
batchItem(st, nfiles, b, env) ==
  LET item == b.args.items[b.i + 1]
  IN generateStyled(st, nfiles, item.content,
                    IF Has(item, "style") THEN item.style ELSE EmptyRec,
                    batchItemConfig(b.args), env)

\* the loop body rethrowing instead of recording a failed item: the loop
\* stops at the first failure
batchPushAbort(b, out) ==
  IF out.ok
    THEN [b EXCEPT
            !.results = Append(b.results, [index |-> b.i, success |-> TRUE,
                                           file |-> out.result.filePath]),
            !.i = b.i + 1]
    ELSE [b EXCEPT !.i = Len(b.args.items)]

\* handleGenerateBatch: what the loop body leaves for the next turn
batchPush(b, out) ==
  [b EXCEPT
     !.results =
        Append(b.results,
               IF out.ok
                 THEN [index |-> b.i, success |-> TRUE, file |-> out.result.filePath]
                 ELSE [index |-> b.i, success |-> FALSE, error |-> out.code]),
     !.i = b.i + 1]

RECURSIVE CountSuccess(_)
CountSuccess(results) ==
  IF results = <<>> THEN 0
  ELSE (IF Head(results).success THEN 1 ELSE 0) + CountSuccess(Tail(results))

\* handleGenerateBatch: the summary returned after the loop
batchSummary(results) ==
  LET successful == CountSuccess(results)
  IN [NoCall EXCEPT !.tool = "generate_qr_batch", !.results = results,
                    !.successful = successful,
                    !.failed = Len(results) - successful]

IdleBatch == [active |-> FALSE, args |-> EmptyRec, i |-> 0, results |-> <<>>]

\* An object getStatistics returned and its caller still holds.  The
\* spread { ...this.statistics, averageSize, averageGenerationTime } copies
\* the numbers and the date; byFormat, byTemplate, generationTimes and sizes
\* of the copy are the accumulator's own objects (aliased) until the
\* accumulator replaces one of them, from when the copy keeps the old object.
NoSnapshot == [taken |-> FALSE, own |-> EmptyRec, aliased |-> {}, kept |-> EmptyRec]

\* what the holder of the snapshot reads in it
SnapshotView(snap, st) ==
  Merge(Merge(snap.own, [f \in snap.aliased |-> st[f]]), snap.kept)

\* updateStatistics took the accumulator from st to st2: a window that was
\* full was pushed to in place and then replaced by its slice(-1000), so a
\* snapshot aliasing it keeps the old array, with the pushed sample
AfterUpdate(snap, st, st2) ==
  LET replaced == {f \in snap.aliased \cap {"generationTimes", "sizes"} :
                     /\ st2.totalGenerated # st.totalGenerated
                     /\ Len(st[f]) = WindowLimit}
  IN [snap EXCEPT
        !.aliased = @ \ replaced,
        !.kept = Merge(@, [f \in replaced |->
                             Append(st[f], st2[f][Len(st2[f])])])]

\* no tool call suspended at an await, none answered yet
NoCalls ==
  [inflight |-> <<>>, succeeded |-> 0, failed |-> 0, fromTemplate |-> EmptyRec]

-----------------------------------------------------------------------------------------------------------------------------------------------------
(* Inputs: the argument objects the tools are called with                  *)

TooLong == <<"L", "a", "a">>

ADate == <<"2024-01-15T10:00:00Z">>

BasicArgs ==
  {[content |-> <<"a">>], [content |-> <<>>], [content |-> <<" ">>],
   [content |-> <<"L", "a">>], [content |-> TooLong],
   [content |-> <<"a">>, size |-> 5000],
   [content |-> <<"a">>, format |-> "svg"],
   [content |-> <<"a">>, format |-> "pdf"]}

StyledArgs ==
  {[content |-> <<"a">>], [content |-> <<" ", "\n">>], [content |-> TooLong],
   [content |-> <<"a">>, config |-> [size |-> 5000]],
   [content |-> <<"a">>, style |-> [logoPath |-> "/logo.png", logoSize |-> 90]],
   [content |-> <<"a">>, style |-> [logoPath |-> "/logo.png", logoSize |-> 40]],
   [content |-> <<"a">>, style |-> [logoPath |-> "/corrupt-logo.png"]],
   [content |-> <<"a">>, style |-> [logoPath |-> "/no-logo.png", logoSize |-> 20]]}

VCardArgs ==
  {[firstName |-> <<"a">>, lastName |-> <<"a">>],
   [firstName |-> <<"a">>, lastName |-> <<"a">>, organization |-> <<>>,
    address |-> EmptyRec, config |-> [margin |-> 11]],
   [firstName |-> <<"L">>, lastName |-> <<"a">>],
   [firstName |-> <<"a">>, lastName |-> <<"a">>, email |-> <<"a">>],
   [firstName |-> <<"a">>]}

WiFiArgs ==
  {[ssid |-> <<"a">>, security |-> "nopass"],
   [ssid |-> <<"a">>, password |-> <<"a">>, hidden |-> TRUE,
    config |-> [size |-> 5000]],
   [ssid |-> <<"L", "a">>],
   [security |-> "nopass"]}

EventArgs ==
  {[title |-> <<"a">>, startDate |-> ADate],
   [title |-> <<"a">>, startDate |-> ADate, endDate |-> ADate, allDay |-> TRUE],
   [title |-> <<"a">>, startDate |-> <<"a">>],
   [title |-> <<"L">>, startDate |-> ADate],
   [startDate |-> ADate]}

TemplateArgs ==
  {[content |-> <<"a">>, templateName |-> "business"],
   [content |-> <<"a">>, templateName |-> "social", overrides |-> [size |-> 5000]],
   [content |-> <<"a">>, templateName |-> "business",
    overrides |-> [logoPath |-> "/logo.png", logoSize |-> 90]],
   [content |-> <<>>, templateName |-> "business"],
   [content |-> TooLong, templateName |-> "social"],
   [content |-> <<"a">>, templateName |-> "custom",
    overrides |-> [margin |-> 4, foregroundColor |-> "#000000"]]}

GoodItem == [content |-> <<"a">>]

BatchArgs ==
  {[items |-> <<GoodItem, [content |-> <<>>], GoodItem>>],
   [items |-> <<[content |-> TooLong],
                [content |-> <<"a">>, style |-> [logoPath |-> "/logo.png"]]>>],
   [items |-> <<GoodItem>>, format |-> "pdf"],
   [items |-> <<>>],
   [items |-> <<[content |-> <<"a">>, style |-> [logoSize |-> 90]]>>],
   [items |-> <<GoodItem>>, baseConfig |-> [size |-> 5000]]}

-----------------------------------------------------------------------------
(* Actions: one per tool call.  A batch call takes one step per item,      *)
(* each a complete generateStyled call, and one step to return.            *)

Apply(tool, args, format, out) ==
  /\ statistics' = out.stats
  /\ files' = files \o out.written
  /\ last' = Respond(tool, args, format, out)
  /\ snapshot' = AfterUpdate(snapshot, statistics, out.stats)
  /\ UNCHANGED <<templates, batch, calls>>

CanGenerate(cap) == ~batch.active /\ statistics.totalGenerated < cap

GenBasicOf(cap, argsSet) ==
  /\ CanGenerate(cap)
  /\ \E args \in argsSet, env \in GenEnv :
       Apply("generate_qr_basic", args, Requested(args),
             handleGenerateBasic(statistics, Len(files), args, env))

GenBasic(cap) == GenBasicOf(cap, BasicArgs)

GenStyled(cap, argsSet) ==
  /\ CanGenerate(cap)
  /\ \E args \in argsSet, env \in GenEnv :
       Apply("generate_qr_styled", args, Requested(ConfigOf(args)),
             handleGenerateStyled(statistics, Len(files), args, env))

GenerateBasic == GenBasic(MaxGenerated)

GenerateStyled == GenStyled(MaxGenerated, StyledArgs)

GenVCard(cap, argsSet) ==
  /\ CanGenerate(cap)
  /\ \E args \in argsSet, env \in GenEnv :
       Apply("generate_vcard_qr", args, Requested(ConfigOf(args)),
             handleGenerateVCard(statistics, Len(files), args, env))

GenWiFi(cap, argsSet) ==
  /\ CanGenerate(cap)
  /\ \E args \in argsSet, env \in GenEnv :
       Apply("generate_wifi_qr", args, Requested(ConfigOf(args)),
             handleGenerateWiFi(statistics, Len(files), args, env))

GenerateVCard == GenVCard(MaxGenerated, VCardArgs)

GenerateWiFi == GenWiFi(MaxGenerated, WiFiArgs)

GenerateEvent ==
  /\ CanGenerate(MaxGenerated)
  /\ \E args \in EventArgs, env \in GenEnv :
       Apply("generate_event_qr", args, Requested(ConfigOf(args)),
             handleGenerateEvent(statistics, Len(files), args, env))

GenFromTemplate(cap, argsSet) ==
  /\ CanGenerate(cap)
  /\ \E args \in argsSet, env \in GenEnv :
       Apply("generate_qr_from_template", args,
             IF Has(args, "overrides") /\ Has(args.overrides, "format")
               THEN args.overrides.format
             ELSE IF MapHas(templates, args.templateName)
               THEN MapGet(templates, args.templateName).config.format
             ELSE "",
             handleGenerateFromTemplate(statistics, templates, Len(files), args, env))

GenerateFromTemplate == GenFromTemplate(MaxGenerated, TemplateArgs)

BatchStart ==
  /\ CanGenerate(MaxGenerated)
  /\ \E args \in BatchArgs :
       IF BatchQRSchemaOk(args)
         THEN /\ batch' = [active |-> TRUE, args |-> args, i |-> 0, results |-> <<>>]
              /\ last' = [NoCall EXCEPT !.tool = "generate_qr_batch",
                                        !.args = args,
                                        !.format = Requested(args), !.done = FALSE]
         ELSE /\ last' = Respond("generate_qr_batch", args, Requested(args),
                                 Early("VALIDATION_ERROR", statistics))
              /\ UNCHANGED batch
  /\ UNCHANGED <<statistics, templates, files, calls, snapshot>>

BatchItem ==
  /\ batch.active
  /\ batch.i < Len(batch.args.items)
  /\ \E env \in GenEnv :
       LET out == batchItem(statistics, Len(files), batch, env)
       IN /\ statistics' = out.stats
          /\ files' = files \o out.written
          /\ batch' = batchPush(batch, out)
          /\ last' = [Respond("generate_qr_batch", batch.args,
                               Requested(batch.args), out)
                        EXCEPT !.done = FALSE]
          /\ snapshot' = AfterUpdate(snapshot, statistics, out.stats)
  /\ UNCHANGED <<templates, calls>>

BatchFinish ==
  /\ batch.active
  /\ ~(batch.i < Len(batch.args.items))
  /\ last' = [batchSummary(batch.results) EXCEPT !.args = batch.args]
  /\ batch' = IdleBatch
  /\ UNCHANGED <<statistics, templates, files, calls, snapshot>>

Init ==
  /\ statistics = InitialStatistics
  /\ templates = DefaultTemplates
  /\ files = <<>>
  /\ batch = IdleBatch
  /\ calls = NoCalls
  /\ snapshot = NoSnapshot
  /\ last = NoCall

Next ==
  \/ GenerateBasic
  \/ GenerateStyled
  \/ GenerateVCard
  \/ GenerateWiFi
  \/ GenerateEvent
  \/ GenerateFromTemplate
  \/ BatchStart
  \/ BatchItem
  \/ BatchFinish

Spec == Init /\ [][Next]_vars

-----------------------------------------------------------------------------
(* Decode and analysis tools.  An image path is identified with what the   *)
(* file system and the image libraries report for it.                      *)

NoFile ==
  [exists |-> FALSE, readable |-> FALSE, hasQR |-> FALSE, content |-> <<>>,
   width |-> 0, height |-> 0, max |-> 0, min |-> 0]

QRImages ==
  [exists : {TRUE}, readable : {TRUE}, hasQR : {TRUE},
   content : {<<"a">>, <<"K">>, <<"K", "a">>},
   width : {100, 199, 200, 400}, height : {199, 200},
   max : {127, 255}, min : {0, 128}]

ImagePaths ==
  {NoFile, [NoFile EXCEPT !.exists = TRUE],
   [NoFile EXCEPT !.exists = TRUE, !.readable = TRUE, !.width = 400,
                  !.height = 400, !.max = 255]}
    \cup {img \in QRImages : img.max >= img.min}

QRAnalysisSchemaOk(a) ==
  /\ Has(a, "imagePath")
  /\ Has(a, "outputFormat") => a.outputFormat \in {"json", "text"}

handleDecodeQR(args) ==
  IF ~QRAnalysisSchemaOk(args) THEN AnalysisThrown("VALIDATION_ERROR")
  ELSE decodeFromImage(args.imagePath)

handleAnalyzeQuality(args) == analyzeQuality(args.imagePath)

\* CallToolRequestSchema handler: the response to a decode or analysis call
RespondAnalysis(tool, args, out) ==
  [tool |-> tool,
   args |-> args,
   isError |-> out.thrown,
   errorType |-> IF out.thrown THEN ErrorTypeOf(out.code) ELSE "",
   code |-> out.code,
   result |-> out.result]

DecodeArgs ==
  {[imagePath |-> p] : p \in ImagePaths}
    \cup {EmptyRec, [imagePath |-> NoFile, outputFormat |-> "xml"]}

Decode(argsSet) ==
  /\ \E args \in argsSet :
       last' = RespondAnalysis("decode_qr_image", args, handleDecodeQR(args))
  /\ UNCHANGED <<statistics, templates, files, batch, calls, snapshot>>

DecodeQR == Decode(DecodeArgs)

Analyze(paths) ==
  /\ \E p \in paths :
       last' = RespondAnalysis("analyze_qr_quality", [imagePath |-> p],
                               handleAnalyzeQuality([imagePath |-> p]))
  /\ UNCHANGED <<statistics, templates, files, batch, calls, snapshot>>

AnalyzeQuality == Analyze(ImagePaths)

NextAnalysis == DecodeQR \/ AnalyzeQuality

SpecAnalysis == Init /\ [][NextAnalysis]_vars

-----------------------------------------------------------------------------
(* The rolling windows at their limit: the process after WindowLimit - 1   *)
(* successful default basic generations of "a", whose samples alternated   *)

PriorSample(i) == IF i % 2 = 0 THEN [time |-> 3, bytes |-> 100]
                  ELSE [time |-> 7, bytes |-> 250]

InitWindow ==
  /\ statistics =
       [totalGenerated |-> WindowLimit - 1,
        byFormat |-> [png |-> WindowLimit - 1],
        byTemplate |-> EmptyRec,
        generationTimes |-> [i \in 1..(WindowLimit - 1) |-> PriorSample(i).time],
        sizes |-> [i \in 1..(WindowLimit - 1) |-> PriorSample(i).bytes],
        lastGenerated |-> MaxClock]
  /\ templates = DefaultTemplates
  /\ files = [i \in 1..(WindowLimit - 1) |->
                [path |-> [id |-> i, ext |-> "png"], kind |-> "png",
                 content |-> <<"a">>]]
  /\ batch = IdleBatch
  /\ calls = NoCalls
  /\ snapshot = NoSnapshot
  /\ last = NoCall

WindowGenerateBasic == GenBasic(WindowLimit + MaxOverflow)

WindowGenerateStyled == GenStyled(WindowLimit + MaxOverflow, StyledArgs)

NextWindow == WindowGenerateBasic \/ WindowGenerateStyled

SpecWindow == InitWindow /\ [][NextWindow]_vars

-----------------------------------------------------------------------------
(* The template registry in use: templates are added and replaced through  *)
(* addTemplate, listed, and used for generation, between other calls       *)

CustomTemplate ==
  [name |-> "custom", category |-> "custom",
   style |-> [foregroundColor |-> "#c53030", backgroundColor |-> "#ffffff"],
   config |-> [size |-> 200, margin |-> 0, errorCorrectionLevel |-> "H",
               format |-> "png"]]

NewTemplates ==
  {CustomTemplate,
   [CustomTemplate EXCEPT !.config.size = 250],
   [BusinessTemplate EXCEPT !.style.cornerRadius = 0]}

\* the sum of q[i..j], by halves
RECURSIVE SumFromTo(_, _, _)
SumFromTo(q, i, j) ==
  IF i > j THEN 0
  ELSE IF i = j THEN q[i]
  ELSE LET m == (i + j) \div 2
       IN SumFromTo(q, i, m) + SumFromTo(q, m + 1, j)

SumSeq(q) == SumFromTo(q, 1, Len(q))

\* an average, as the quotient num / den
Average(q) ==
  IF Len(q) > 0 THEN [num |-> SumSeq(q), den |-> Len(q)] ELSE [num |-> 0, den |-> 1]

getStatistics(st) ==
  Merge(st, [averageSize |-> Average(st.sizes),
             averageGenerationTime |-> Average(st.generationTimes)])

\* an image that decodes
GoodImage ==
  [exists |-> TRUE, readable |-> TRUE, hasQR |-> TRUE, content |-> <<"a">>,
   width |-> 400, height |-> 200, max |-> 255, min |-> 0]

\* decoding between the template operations: a missing file, and an image
\* that decodes
TemplatesDecodeQR ==
  Decode({[imagePath |-> NoFile],
          [imagePath |-> GoodImage]})

\* addTemplate is an operation of the engine; no tool calls it
AddTemplate ==
  /\ ~batch.active
  /\ \E template \in NewTemplates :
       /\ templates' = addTemplate(templates, template)
       /\ last' = [NoCall EXCEPT !.tool = "addTemplate", !.args = template]
  /\ UNCHANGED <<statistics, files, batch, calls, snapshot>>

\* the reversed registry: getTemplates reversing the Map while it reads it
Reversed(m) == [i \in 1..Len(m) |-> m[Len(m) + 1 - i]]

ListTemplatesReversing ==
  /\ ~batch.active
  /\ last' = [NoCall EXCEPT !.tool = "list_qr_templates",
                            !.result = [templates |-> getTemplates(templates)]]
  /\ templates' = Reversed(templates)
  /\ UNCHANGED <<statistics, files, batch, calls, snapshot>>

ListTemplates ==
  /\ ~batch.active
  /\ last' = [NoCall EXCEPT !.tool = "list_qr_templates",
                            !.result = [templates |-> getTemplates(templates)]]
  /\ UNCHANGED <<statistics, templates, files, batch, calls, snapshot>>

GetStatistics ==
  /\ ~batch.active
  /\ last' = [NoCall EXCEPT !.tool = "get_qr_statistics",
                            !.result = getStatistics(statistics)]
  /\ UNCHANGED <<statistics, templates, files, batch, calls, snapshot>>

NextTemplates ==
  \/ AddTemplate
  \/ ListTemplates
  \/ GetStatistics
  \/ GenerateFromTemplate
  \/ GenerateStyled
  \/ TemplatesDecodeQR

SpecTemplates == Init /\ [][NextTemplates]_vars

-----------------------------------------------------------------------------
(* A caller of the engine that keeps what getStatistics returned: it reads *)
(* the object again after later generations, and writes into it            *)

\* getStatistics hands out the spread copy of the accumulator
takeSnapshot(st) ==
  [taken |-> TRUE,
   own |-> [totalGenerated |-> st.totalGenerated,
            lastGenerated |-> st.lastGenerated,
            averageSize |-> Average(st.sizes),
            averageGenerationTime |-> Average(st.generationTimes)],
   aliased |-> {"byFormat", "byTemplate", "generationTimes", "sizes"},
   kept |-> EmptyRec]

TakeSnapshot ==
  /\ snapshot' = takeSnapshot(statistics)
  /\ last' = [NoCall EXCEPT !.tool = "getStatistics",
                            !.result = SnapshotView(snapshot', statistics)]
  /\ UNCHANGED <<statistics, templates, files, batch, calls>>

\* what the caller writes into the object it holds:
\* s.byFormat.png = 0, or s.sizes.length = 0
SnapshotWrites == {"byFormat", "sizes"}

Written(f, old) ==
  IF f = "byFormat"
    THEN [k \in DOMAIN old \cup {"png"} |-> IF k = "png" THEN 0 ELSE old[k]]
    ELSE <<>>

WriteSnapshot ==
  /\ snapshot.taken
  /\ \E f \in SnapshotWrites :
       LET new == Written(f, SnapshotView(snapshot, statistics)[f])
       IN /\ IF f \in snapshot.aliased
               THEN /\ statistics' = [statistics EXCEPT ![f] = new]
                    /\ snapshot' = snapshot
               ELSE /\ statistics' = statistics
                    /\ snapshot' = [snapshot EXCEPT
                                      !.own = IF f \in DOMAIN @
                                                THEN [@ EXCEPT ![f] = new] ELSE @,
                                      !.kept = IF f \in DOMAIN @
                                                 THEN [@ EXCEPT ![f] = new] ELSE @]
          /\ last' = [NoCall EXCEPT !.tool = "snapshot.write",
                                    !.args = [field |-> f]]
  /\ UNCHANGED <<templates, files, batch, calls>>

\* how far the process generates: MaxGenerated from a new process,
\* MaxOverflow past the limit of the windows from one with full windows
GenerationCap ==
  IF statistics.totalGenerated < WindowLimit - 1
    THEN MaxGenerated ELSE WindowLimit + MaxOverflow

SnapshotGenerateBasic == GenBasic(GenerationCap)

InitSnapshot == Init \/ InitWindow

NextSnapshot == TakeSnapshot \/ WriteSnapshot \/ SnapshotGenerateBasic

SpecSnapshot == InitSnapshot /\ [][NextSnapshot]_vars

-----------------------------------------------------------------------------
(* The accumulator over both ends of its life: a new process, and one whose *)
(* windows are full, with templates added and used                          *)

StatisticsGenerateBasic ==
  GenBasicOf(GenerationCap,
             {[content |-> <<"a">>], [content |-> <<>>],
              [content |-> <<"a">>, format |-> "svg"]})

StatisticsGenerateFromTemplate ==
  GenFromTemplate(GenerationCap,
                  {[content |-> <<"a">>, templateName |-> "business"],
                   [content |-> <<"a">>, templateName |-> "custom"],
                   [content |-> <<>>, templateName |-> "custom"]})

NextStatistics ==
  \/ AddTemplate
  \/ StatisticsGenerateBasic
  \/ StatisticsGenerateFromTemplate

SpecStatistics == InitSnapshot /\ [][NextStatistics]_vars

-----------------------------------------------------------------------------
(* Artifacts read back: decode_qr_image is given the path of a file that   *)
(* a generation wrote                                                      *)

\* the colours the encoder draws with when the call gives none
DefaultDark == "#000000"

DefaultLight == "#ffffff"

\* whether jsQR finds the symbol in the image of a written artifact: never
\* when the modules were drawn in the colour of the background, always when
\* they are black on white or white on black, and either for other pairs
Visible(file) ==
  LET dark == IF Has(file, "dark") THEN file.dark ELSE DefaultDark
      light == IF Has(file, "light") THEN file.light ELSE DefaultLight
  IN IF dark = light THEN {FALSE}
     ELSE IF {dark, light} = {DefaultDark, DefaultLight} THEN {TRUE}
     ELSE BOOLEAN

\* what decodeFromImage finds at the path of a written artifact: Jimp reads
\* a PNG, whatever the extension of its path, and no SVG
ReadBack(file) ==
  {[path |-> file.path, exists |-> TRUE, readable |-> file.kind = "png",
    hasQR |-> file.kind = "png" /\ h,
    content |-> IF file.kind = "png" /\ h THEN file.content ELSE <<>>,
    width |-> DefaultSize, height |-> DefaultSize, max |-> 255, min |-> 0] :
     h \in Visible(file)}

RoundTripStyledArgs ==
  {[content |-> <<"a">>],
   [content |-> <<"a">>,
    style |-> [foregroundColor |-> "#ffffff", backgroundColor |-> "#ffffff"]],
   [content |-> <<"a">>,
    style |-> [foregroundColor |-> "#ffffff", backgroundColor |-> "#000000"]],
   [content |-> <<"K">>, style |-> [foregroundColor |-> "#000000"]],
   [content |-> <<"a">>, config |-> [format |-> "svg"]]}

RoundTripGenerateStyled == GenStyled(MaxGenerated, RoundTripStyledArgs)

DecodeGenerated ==
  /\ \E i \in 1..Len(files) :
       \E img \in ReadBack(files[i]) :
         last' = RespondAnalysis("decode_qr_image", [imagePath |-> img],
                                 handleDecodeQR([imagePath |-> img]))
  /\ UNCHANGED <<statistics, templates, files, batch, calls, snapshot>>

NextRoundTrip ==
  \/ GenerateBasic
  \/ RoundTripGenerateStyled
  \/ DecodeGenerated

SpecRoundTrip == Init /\ [][NextRoundTrip]_vars

-----------------------------------------------------------------------------
(* The tool-call handler over every kind of tool: the tools that generate, *)
(* the tools that only read or compute, and a name that is no tool         *)

ToolNames ==
  {"generate_qr_basic", "generate_qr_styled", "generate_qr_batch",
   "generate_vcard_qr", "generate_wifi_qr", "generate_event_qr",
   "decode_qr_image", "analyze_qr_quality", "optimize_qr_content",
   "list_qr_templates", "generate_qr_from_template", "get_qr_statistics",
   "validate_qr_content"}

\* new URL(content) does not throw
UrlParses(s) ==
  \/ s = <<"https://a.a">>
  \/ /\ Len(s) >= 2 /\ s[1] \in {"http://", "https://"}
     /\ \A k \in 2..Len(s) : ~IsWs(s[k])

\* /^[^\s@]+@[^\s@]+\.[^\s@]+$/.test(content)
EmailRegexTest(s) ==
  \E k \in 1..Len(s) :
    /\ s[k] = "a@a.a"
    /\ \A j \in 1..Len(s) : j # k => s[j] \in {"a", "K", "L"}

\* handleValidateContent failing the content on an address or a URL that
\* does not parse, where the code only recommends
handleValidateContentStrict(args) ==
  LET bad == \/ ~Has(args, "content") \/ args.content = <<>>
             \/ Len(Trim(args.content)) = 0
             \/ StrLen(args.content) > MaxContentLength
             \/ (Has(args, "contentType") /\ args.contentType = "url"
                   /\ ~UrlParses(args.content))
             \/ (Has(args, "contentType") /\ args.contentType = "email"
                   /\ ~EmailRegexTest(args.content))
  IN IF bad
       THEN AnalysisReturned([isError |-> TRUE, error |-> "VALIDATION_ERROR"])
     ELSE AnalysisReturned([isError |-> FALSE,
                            length |-> StrLen(args.content),
                            contentType |-> IF Has(args, "contentType")
                                              THEN args.contentType ELSE "text",
                            recommendations |-> <<>>])

\* handleValidateContent: what it throws inside its try it catches itself,
\* and returns as its own failure response
handleValidateContent(args) ==
  IF ~Has(args, "content") \/ args.content = <<>>
       \/ Len(Trim(args.content)) = 0
    THEN AnalysisReturned([isError |-> TRUE, error |-> "VALIDATION_ERROR"])
  ELSE IF StrLen(args.content) > MaxContentLength
    THEN AnalysisReturned([isError |-> TRUE, error |-> "VALIDATION_ERROR"])
  ELSE AnalysisReturned(
         [isError |-> FALSE,
          length |-> StrLen(args.content),
          contentType |-> IF Has(args, "contentType")
                            THEN args.contentType ELSE "text",
          recommendations |->
            (IF Has(args, "contentType") /\ args.contentType = "url"
                  /\ ~UrlParses(args.content)
               THEN <<"not a valid URL">> ELSE <<>>)
              \o (IF Has(args, "contentType") /\ args.contentType = "email"
                       /\ ~EmailRegexTest(args.content)
                    THEN <<"not a valid email address">> ELSE <<>>)])

StartsWithHttp(s) == s # <<>> /\ Head(s) = "http://"

StartsWithHttps(s) == s # <<>> /\ Head(s) \in {"https://", "https://a.a"}

\* optimized content and the optimizations applied; the scheme is tested
\* on the content as given, before it is trimmed
optimizeContent(content) ==
  LET upgrade == StartsWithHttp(content)
      o1 == IF upgrade THEN <<"https://">> \o Tail(content) ELSE content
      trimmed == Trim(o1)
      o2 == IF trimmed # o1 THEN trimmed ELSE o1
  IN [optimized |-> o2,
      recommendations |->
        (IF upgrade THEN <<"Upgraded HTTP to HTTPS">> ELSE <<>>)
          \o (IF trimmed # o1
                THEN <<"Removed leading/trailing whitespace">> ELSE <<>>)
          \o (IF StartsWithHttps(o2) /\ StrLen(o2) > 100
                THEN <<"Consider using a URL shortener">> ELSE <<>>)]

\* handleOptimizeContent: args.content.startsWith of an absent content is a
\* TypeError
handleOptimizeContent(args) ==
  IF ~Has(args, "content") THEN AnalysisThrown("TypeError")
  ELSE AnalysisReturned(optimizeContent(args.content))

\* CallToolRequestSchema handler: what a handler returns is the response,
\* what it throws is caught and answered with the name of its type
RespondTool(tool, args, out) ==
  [tool |-> tool,
   args |-> args,
   isError |-> out.thrown \/ (Has(out.result, "isError") /\ out.result.isError),
   errorType |-> IF out.thrown THEN ErrorTypeOf(out.code) ELSE "",
   code |-> out.code,
   result |-> out.result]

Contents ==
  {<<>>, <<" ">>, <<"a">>, <<" ", "a", " ">>, <<"L", "a">>, TooLong,
   <<"https://a.a">>, <<"a@a.a">>, <<"a", "a@a.a">>}

ValidateArgs ==
  {EmptyRec, [contentType |-> "url"]}
    \cup {[content |-> c] : c \in Contents}
    \cup {[content |-> c, contentType |-> t] :
            c \in Contents, t \in {"text", "url", "email"}}

OptimizeArgs ==
  {EmptyRec}
    \cup {[content |-> c] :
            c \in {<<"a">>, <<" ", "a">>, <<"http://", "a">>,
                   <<"https://", "a">>, <<"https://", "K">>,
                   <<" ", " ", " ", "http://", "a", " ", " ", " ">>,
                   <<"http://", "a", " ">>, <<" ", "\n">>}}

ValidateContent ==
  /\ \E args \in ValidateArgs :
       last' = RespondTool("validate_qr_content", args, handleValidateContent(args))
  /\ UNCHANGED <<statistics, templates, files, batch, calls, snapshot>>

\* optimize_qr_content counting the content it optimized as a generation
OptimizeContentCounting ==
  /\ \E args \in OptimizeArgs :
       last' = RespondTool("optimize_qr_content", args, handleOptimizeContent(args))
  /\ statistics' = [statistics EXCEPT !.totalGenerated = @ + 1]
  /\ UNCHANGED <<templates, files, batch, calls, snapshot>>

OptimizeContent ==
  /\ \E args \in OptimizeArgs :
       last' = RespondTool("optimize_qr_content", args, handleOptimizeContent(args))
  /\ UNCHANGED <<statistics, templates, files, batch, calls, snapshot>>

\* default: throw new Error(`Unknown tool: ${name}`)
UnknownTool ==
  /\ \E name \in {"generate_qr", "decode"} :
       last' = RespondTool(name, EmptyRec,
                           IF name \in ToolNames THEN AnalysisReturned(EmptyRec)
                           ELSE AnalysisThrown("Error"))
  /\ UNCHANGED <<statistics, templates, files, batch, calls, snapshot>>

ToolsAnalyzeQuality ==
  Analyze({NoFile,
           GoodImage})

NextTools ==
  \/ GenerateBasic
  \/ GenerateEvent
  \/ TemplatesDecodeQR
  \/ ToolsAnalyzeQuality
  \/ ListTemplates
  \/ GetStatistics
  \/ ValidateContent
  \/ OptimizeContent
  \/ UnknownTool

SpecTools == Init /\ [][NextTools]_vars

-----------------------------------------------------------------------------
(* The payload encoders over their inputs: every combination of present,   *)
(* empty and absent optional fields                                        *)

\* a record with field f set to each value of vals, or without f
Optional(f, vals) == {EmptyRec} \cup {[x \in {f} |-> v] : v \in vals}

WiFiCredentials ==
  {Merge(Merge(Merge([ssid |-> <<"a">>], p), s), h) :
     p \in Optional("password", {<<>>, <<"a">>}),
     s \in Optional("security", {"nopass"}),
     h \in Optional("hidden", BOOLEAN)}

Addresses == {EmptyRec, [city |-> <<"a">>], [street |-> <<>>, zip |-> <<"a">>]}

\* the other optional fields: all absent, or title and phone empty and
\* email and website given
OtherFields ==
  {EmptyRec,
   [title |-> <<>>, phone |-> <<>>, email |-> <<"a@a.a">>,
    website |-> <<"https://a.a">>]}

Contacts ==
  {Merge(Merge(Merge([firstName |-> <<"a">>, lastName |-> <<"a">>], o), r), a) :
     o \in Optional("organization", {<<>>, <<"a">>}),
     r \in OtherFields,
     a \in Optional("address", Addresses)}

EncodeWiFi == GenWiFi(MaxEncoded, WiFiCredentials)

EncodeVCard == GenVCard(MaxEncoded, Contacts)

NextPayloads == EncodeWiFi \/ EncodeVCard

SpecPayloads == Init /\ [][NextPayloads]_vars

-----------------------------------------------------------------------------
(* Tool calls in flight together.  The request handler is async: a call    *)
(* runs until its next await and the event loop then resumes any suspended *)
(* call.  A generation call is suspended while the encoder runs, while the *)
(* artifact is written, between the return of generatePNG /                *)
(* applyAdvancedStyling and the continuation of generateBasic /            *)
(* generateStyled that records the statistics, between the return of       *)
(* generateStyled and the continuation of generateFromTemplate, and before *)
(* the handler answers.  Output paths are named by a fresh uuid; the model *)
(* numbers them when the file is written.                                  *)

ConcArgs ==
  {[tool |-> "generate_qr_basic", content |-> <<"a">>, templateName |-> ""],
   [tool |-> "generate_qr_basic", content |-> <<>>, templateName |-> ""],
   [tool |-> "generate_qr_styled", content |-> <<"a">>, templateName |-> ""],
   [tool |-> "generate_qr_from_template", content |-> <<"a">>,
    templateName |-> "business"],
   [tool |-> "generate_qr_from_template", content |-> <<"a">>,
    templateName |-> "social"],
   [tool |-> "generate_qr_from_template", content |-> <<"a">>,
    templateName |-> "missing"]}

\* the synchronous part of a call up to its first await: the error it
\* throws, or "" when it reaches the encoder
SyncPrefix(tpls, args) ==
  IF args.tool = "generate_qr_from_template" /\ ~MapHas(tpls, args.templateName)
    THEN "VALIDATION_ERROR"
  ELSE IF ~validateContent(args.content).ok THEN "GENERATION_ERROR"
  ELSE ""

Remove(s, i) == SubSeq(s, 1, i - 1) \o SubSeq(s, i + 1, Len(s))

\* the handler's answer to a call that interleaved with others
ConcRespond(call, code) ==
  [NoCall EXCEPT !.tool = call.tool, !.isError = code # "",
                 !.errorType = IF code = "" THEN "" ELSE ErrorTypeOf(code),
                 !.code = code, !.called = code # "VALIDATION_ERROR",
                 !.payload = call.content]

ConcFail(i, call, code) ==
  /\ calls' = [calls EXCEPT !.inflight = Remove(calls.inflight, i),
                            !.failed = @ + 1]
  /\ last' = ConcRespond(call, code)

\* this.statistics.byTemplate[templateName] = 1: the count of earlier uses
\* is overwritten
recordTemplateUseOverwrite(st, templateName) ==
  [st EXCEPT !.byTemplate = Merge(st.byTemplate, [x \in {templateName} |-> 1])]

\* generateFromTemplate, after the await of generateStyled
recordTemplateUse(st, templateName) ==
  [st EXCEPT !.byTemplate = Bump(st.byTemplate, templateName)]

ConcStart ==
  /\ Len(calls.inflight) < MaxInFlight
  /\ Len(calls.inflight) + calls.succeeded + calls.failed < MaxCalls
  /\ \E args \in ConcArgs :
       LET code == SyncPrefix(templates, args)
       IN IF code # ""
            THEN /\ calls' = [calls EXCEPT !.failed = @ + 1]
                 /\ last' = ConcRespond(args, code)
            ELSE /\ calls' = [calls EXCEPT !.inflight =
                                Append(@, [tool |-> args.tool,
                                           content |-> args.content,
                                           templateName |-> args.templateName,
                                           pc |-> "encode",
                                           sample |-> [time |-> 0, bytes |-> 0,
                                                       tick |-> 0]])]
                 /\ UNCHANGED last
  /\ UNCHANGED <<statistics, templates, files, batch, snapshot>>

\* the encoder (QRCode.toBuffer / QRCode.toDataURL) settles
ConcEncoded ==
  /\ \E i \in 1..Len(calls.inflight) :
       LET call == calls.inflight[i]
       IN /\ call.pc = "encode"
          /\ \/ /\ calls' = [calls EXCEPT !.inflight[i].pc = "write"]
                /\ UNCHANGED last
             \/ ConcFail(i, call, "GENERATION_ERROR")
  /\ UNCHANGED <<statistics, templates, files, batch, snapshot>>

\* fs.writeFile settles; generatePNG / applyAdvancedStyling builds the result
ConcWritten ==
  /\ \E i \in 1..Len(calls.inflight) :
       LET call == calls.inflight[i]
       IN /\ call.pc = "write"
          /\ \/ \E sample \in Samples :
                  /\ calls' = [calls EXCEPT !.inflight[i].pc = "produced",
                                            !.inflight[i].sample = sample]
                  /\ files' = Append(files,
                                     [path |-> generateOutputPath(Len(files), "png"),
                                      kind |-> "png", content |-> call.content])
                  /\ UNCHANGED last
             \/ /\ ConcFail(i, call, "GENERATION_ERROR")
                /\ UNCHANGED files
  /\ UNCHANGED <<statistics, templates, batch, snapshot>>

\* generateBasic / generateStyled continue after the await:
\* this.updateStatistics(result, Date.now() - startTime)
ConcCheckpoint ==
  /\ \E i \in 1..Len(calls.inflight) :
       LET call == calls.inflight[i]
       IN /\ call.pc = "produced"
          /\ statistics' =
               updateStatistics(statistics,
                                [format |-> "png", size |-> call.sample.bytes],
                                call.sample.time,
                                Now(statistics, [sample |-> call.sample]))
          /\ calls' = [calls EXCEPT !.inflight[i].pc =
                         IF call.tool = "generate_qr_from_template"
                           THEN "resume" ELSE "return"]
  /\ snapshot' = AfterUpdate(snapshot, statistics, statistics')
  /\ UNCHANGED <<templates, files, batch, last>>

\* generateFromTemplate continues after the await of generateStyled
ConcTemplateCheckpoint ==
  /\ \E i \in 1..Len(calls.inflight) :
       LET call == calls.inflight[i]
       IN /\ call.pc = "resume"
          /\ statistics' = recordTemplateUse(statistics, call.templateName)
          /\ calls' = [calls EXCEPT !.inflight[i].pc = "return"]
  /\ UNCHANGED <<templates, files, batch, last, snapshot>>

\* the handler continues after the await of the core call and answers
ConcReturn ==
  /\ \E i \in 1..Len(calls.inflight) :
       LET call == calls.inflight[i]
       IN /\ call.pc = "return"
          /\ calls' = [calls EXCEPT
                         !.inflight = Remove(calls.inflight, i),
                         !.succeeded = @ + 1,
                         !.fromTemplate =
                            IF call.tool = "generate_qr_from_template"
                              THEN Bump(@, call.templateName) ELSE @]
          /\ last' = ConcRespond(call, "")
  /\ UNCHANGED <<statistics, templates, files, batch, snapshot>>

NextConcurrent ==
  \/ ConcStart
  \/ ConcEncoded
  \/ ConcWritten
  \/ ConcCheckpoint
  \/ ConcTemplateCheckpoint
  \/ ConcReturn

SpecConcurrent == Init /\ [][NextConcurrent]_vars

-----------------------------------------------------------------------------
(* The item loop of a batch call in the steps of its awaits: the loop      *)
(* calls generateStyled for an item, and continues when the call settled   *)

\* the loop calling generateStyled for every item without awaiting it
loopAwaitsNothing(c) == TRUE

\* const result = await this.qrCode.generateStyled(...): the loop does not
\* run while the call for an item is pending
loopAwaits(c) == c.inflight = <<>>

LoopCall ==
  /\ batch.active
  /\ batch.i < Len(batch.args.items)
  /\ loopAwaits(calls)
  /\ Len(calls.inflight) < MaxInFlight
  /\ calls' = [calls EXCEPT !.inflight =
                 Append(@, [tool |-> "generate_qr_batch", item |-> batch.i])]
  /\ last' = [NoCall EXCEPT !.tool = "generate_qr_batch", !.args = batch.args,
                            !.format = Requested(batch.args), !.done = FALSE]
  /\ UNCHANGED <<statistics, templates, files, batch, snapshot>>

\* the call for an item settles: the loop body records it and moves on
LoopSettle ==
  /\ batch.active
  /\ \E k \in 1..Len(calls.inflight), env \in GenEnv :
       LET b == [batch EXCEPT !.i = calls.inflight[k].item]
           out == batchItem(statistics, Len(files), b, env)
       IN /\ statistics' = out.stats
          /\ files' = files \o out.written
          /\ batch' = batchPush(b, out)
          /\ calls' = [calls EXCEPT !.inflight = Remove(@, k)]
          /\ last' = [Respond("generate_qr_batch", batch.args,
                               Requested(batch.args), out)
                        EXCEPT !.done = FALSE]
          /\ snapshot' = AfterUpdate(snapshot, statistics, out.stats)
  /\ UNCHANGED templates

LoopFinish ==
  /\ calls.inflight = <<>>
  /\ BatchFinish

NextBatchLoop ==
  \/ BatchStart
  \/ LoopCall
  \/ LoopSettle
  \/ LoopFinish

SpecBatchLoop == Init /\ [][NextBatchLoop]_vars

-----------------------------------------------------------------------------
(* Properties                                                              *)

\* a payload the validator must reject: empty, whitespace-only, or longer
\* than the maximum content length
BadPayload(p) == Len(Trim(p)) = 0 \/ StrLen(p) > MaxContentLength

\* the step made a core generation call and it returned a result
Generated(l) == l.called /\ ~l.isError

\* C1: generate_qr_basic with empty or whitespace-only content fails with a
\* ValidationError (kind VALIDATION_ERROR, labelled ValidationError by the
\* request handler) and with no other error kind.
C1_EmptyContentIsValidationError ==
  (last.tool = "generate_qr_basic" /\ last.called /\ Len(Trim(last.payload)) = 0)
    => (last.isError /\ last.code = "VALIDATION_ERROR"
          /\ last.errorType = "ValidationError")

\* C2: on every generation path a payload that is empty, whitespace-only or
\* longer than 4296 characters makes the call fail with no encoder
\* invocation, no file written and the statistics unchanged; the encoder is
\* only ever invoked with a payload that passes validation.
C2_InvalidPayloadShortCircuits ==
  [][/\ (last'.called /\ BadPayload(last'.payload))
          => (last'.isError /\ last'.enc = <<>> /\ last'.written = <<>>
                /\ files' = files /\ statistics' = statistics)
     /\ \A k \in 1..Len(last'.enc) : ~BadPayload(last'.enc[k].content)]_vars

C2_Witness ==
  /\ last.tool = "generate_qr_batch" /\ ~last.done
  /\ last.called /\ StrLen(last.payload) > MaxContentLength
  /\ last.isError
  /\ \E name \in DOMAIN statistics.byTemplate : statistics.byTemplate[name] = 1

\* C3: every step adds to totalGenerated exactly the number of generations
\* that succeeded in it (1 for a successful generation on any path, 0 for a
\* failed one), so totalGenerated never decreases.
C3_TotalCountsSuccesses ==
  [][statistics'.totalGenerated =
       statistics.totalGenerated + (IF Generated(last') THEN 1 ELSE 0)]_vars

C3_Witness ==
  /\ last.tool = "generate_qr_from_template" /\ Generated(last)
  /\ statistics.totalGenerated = 2
  /\ Len(files) = 2

\* the window w after recording sample x: x appended, the oldest dropped
\* when the window was full
Pushed(w, x) == IF Len(w) < WindowLimit THEN Append(w, x) ELSE Append(Tail(w), x)

\* C4: each window holds at most 1000 samples; a successful generation
\* appends its sample at the end and drops the oldest one exactly when the
\* window was full, and nothing else changes a window - so each window is
\* the most recent min(n, 1000) samples in insertion order.
C4_WindowsKeepMostRecent ==
  [][/\ Len(statistics'.generationTimes) <= WindowLimit
     /\ Len(statistics'.sizes) <= WindowLimit
     /\ IF Generated(last')
          THEN /\ \E s \in Samples :
                    statistics'.generationTimes =
                      Pushed(statistics.generationTimes, s.time)
               /\ statistics'.sizes = Pushed(statistics.sizes, last'.result.size)
          ELSE /\ statistics'.generationTimes = statistics.generationTimes
               /\ statistics'.sizes = statistics.sizes]_vars

C4_Witness ==
  /\ Len(statistics.generationTimes) = WindowLimit
  /\ Len(statistics.sizes) = WindowLimit
  /\ statistics.totalGenerated > WindowLimit
  /\ statistics.sizes[WindowLimit] # statistics.sizes[WindowLimit - 1]

C6_EncoderSizeAndMarginInRange ==
  \A k \in 1..Len(last.enc) :
    LET opts == last.enc[k].opts
    IN /\ Has(opts, "width") => opts.width >= MinSize /\ opts.width <= MaxSize
       /\ Has(opts, "margin") => opts.margin >= MinMargin /\ opts.margin <= MaxMargin
       /\ Has(opts, "padding") =>
            opts.padding >= MinMargin * 10 /\ opts.padding <= MaxMargin * 10

\* C7: the logoSize fraction the compositor uses for the logo footprint is
\* never above 0.4 and never below 0.1.
C7_LogoSizeInRange ==
  \A k \in 1..Len(last.logo) :
    last.logo[k].logoSize >= MinLogoPct /\ last.logo[k].logoSize <= MaxLogoPct


\* the call was decode_qr_image with arguments that pass the schema
Decoded(l) == l.tool = "decode_qr_image" /\ QRAnalysisSchemaOk(l.args)

\* C8: decoding a path with no file behind it raises an AnalysisError (kind
\* ANALYSIS_ERROR) and returns no result; decoding a readable image with no
\* QR symbol raises nothing and returns success = false with a non-empty
\* error string.
C8_DecodeHardAndSoftFailure ==
  Decoded(last) =>
    LET img == last.args.imagePath
    IN /\ ~img.exists
            => (last.isError /\ last.code = "ANALYSIS_ERROR"
                  /\ last.errorType = "AnalysisError" /\ last.result = EmptyRec)
       /\ (img.exists /\ img.readable /\ ~img.hasQR)
            => (~last.isError /\ Has(last.result, "success")
                  /\ ~last.result.success
                  /\ Has(last.result, "error") /\ last.result.error # "")

C8_Witness ==
  /\ Decoded(last)
  /\ last.args.imagePath.exists /\ last.args.imagePath.readable
  /\ ~last.args.imagePath.hasQR
  /\ ~last.isError /\ ~last.result.success

B(p) == IF p THEN 1 ELSE 0

\* the score the quality contract gives for an image and its decoded content
ContractScore(img) ==
  LET raw == 100 - 20 * B(img.width < 200 \/ img.height < 200)
                 - 30 * B(img.max - img.min < 128)
                 - 10 * B(StrLen(img.content) > 1000)
  IN IF raw < 0 THEN 0 ELSE raw

ContractTier(score) ==
  CASE score >= 90 -> "excellent"
    [] score >= 70 /\ score < 90 -> "good"
    [] score >= 50 /\ score < 70 -> "fair"
    [] score < 50 -> "poor"

ContractRecommendations(img) ==
  (IF img.width < 200 \/ img.height < 200 THEN <<"resolution">> ELSE <<>>)
    \o (IF img.max - img.min < 128 THEN <<"contrast">> ELSE <<>>)
    \o (IF StrLen(img.content) > 1000 THEN <<"length">> ELSE <<>>)

\* the call was analyze_qr_quality and the image decoded
Assessed(l) ==
  l.tool = "analyze_qr_quality" /\ ~l.isError /\ l.result.success

C10_PdfRequestNeverSucceeds ==
  ~(Generated(last) /\ last.format = "pdf")

\* the kinds of the typed errors QRValidationError, QRGenerationError and
\* QRAnalysisError
TypedCodes == {"VALIDATION_ERROR", "GENERATION_ERROR", "ANALYSIS_ERROR"}

\* C11: every failure of a generation operation (basic, styled, vCard, WiFi,
\* event - including a failure while building the payload - and template)
\* reaches the caller as one of the typed errors, identified by its
\* machine-readable code; no untyped error escapes the core.
C11_CoreFailuresAreTyped ==
  last.isError => last.code \in TypedCodes

\* C12: every successful generation returns success = true and
\* metadata.originalContent equal to the payload that was encoded; when the
\* caller gave no config, style or overrides the result format is png and
\* the file path ends in .png.
C12_ResultDescribesPayload ==
  Generated(last) =>
    /\ last.result.success
    /\ last.result.originalContent = last.payload
    /\ (last.tool \in {"generate_qr_basic", "generate_qr_styled"}
          /\ DOMAIN last.args = {"content"})
         => (last.result.format = "png" /\ last.result.filePath.ext = "png")

\* the value of a counter map at a key (0 when the key was never counted)
CountAt(m, k) == IF k \in DOMAIN m THEN m[k] ELSE 0

RECURSIVE SumOver(_, _)
SumOver(m, keys) ==
  IF keys = {} THEN 0
  ELSE LET k == CHOOSE x \in keys : TRUE
       IN m[k] + SumOver(m, keys \ {k})

\* the calls in flight whose program counter is one of pcs
InFlightAt(pcs) ==
  {i \in 1..Len(calls.inflight) : calls.inflight[i].pc \in pcs}

\* C13: however the calls in flight interleave at their suspension points,
\* no statistics update is lost: totalGenerated, the sum of the per-format
\* counters and the number of samples in each window (up to 1000) all equal
\* the number of generations that have passed their checkpoint (answered
\* successfully, or about to be), and byTemplate[name] equals the number of
\* template generations for name that have passed theirs; so after k
\* interleaved successful generations each has grown by exactly k.
C13_NoStatisticsUpdateLost ==
  LET counted == calls.succeeded + Cardinality(InFlightAt({"resume", "return"}))
  IN /\ statistics.totalGenerated = counted
     /\ SumOver(statistics.byFormat, DOMAIN statistics.byFormat) = counted
     /\ Len(statistics.generationTimes) = Min(counted, WindowLimit)
     /\ Len(statistics.sizes) = Min(counted, WindowLimit)
     /\ \A name \in {"business", "social", "missing"} :
          CountAt(statistics.byTemplate, name) =
            CountAt(calls.fromTemplate, name)
              + Cardinality({i \in InFlightAt({"return"}) :
                               calls.inflight[i].templateName = name})

C13_Witness ==
  /\ Len(calls.inflight) = 2
  /\ \A i \in 1..2 : /\ calls.inflight[i].pc = "return"
                      /\ calls.inflight[i].templateName = "business"
  /\ calls.succeeded = 1
  /\ statistics.totalGenerated = 3
  /\ statistics.byTemplate.business = 2

\* the step was a generate_qr_from_template call
FromTemplate(l) == l.tool = "generate_qr_from_template"

OverridesOf(args) == IF Has(args, "overrides") THEN args.overrides ELSE EmptyRec

\* C14: generateFromTemplate with a registered name adds exactly 1 to
\* byTemplate[name] when the styled generation succeeds and leaves byTemplate
\* as it was when it fails; with an unregistered name it fails with the
\* not-found validation error before any generation and changes neither the
\* statistics nor the registry.
C14_TemplateUseIsCountedOnSuccess ==
  [][FromTemplate(last') =>
       LET name == last'.args.templateName
       IN IF MapHas(templates, name)
            THEN /\ last'.called
                 /\ ~last'.isError =>
                      statistics'.byTemplate =
                        Merge(statistics.byTemplate,
                              [x \in {name} |->
                                 CountAt(statistics.byTemplate, name) + 1])
                 /\ last'.isError =>
                      statistics'.byTemplate = statistics.byTemplate
            ELSE /\ last'.isError /\ last'.code = "VALIDATION_ERROR"
                 /\ ~last'.called
                 /\ statistics' = statistics
                 /\ templates' = templates]_vars

C14_Witness ==
  /\ FromTemplate(last) /\ last.args.templateName = "custom"
  /\ last.called /\ last.isError
  /\ CountAt(statistics.byTemplate, "custom") = 1

\* C15: the style and the config generateFromTemplate passes to styled
\* generation are the template's with the overrides shallow-merged on top:
\* an overridden field has the override's value, every other field the
\* template's, there is no further field, and the registered template is
\* not modified.
C15_OverridesMergedOverTemplate ==
  [][(FromTemplate(last') /\ last'.called) =>
       LET template == MapGet(templates, last'.args.templateName)
           overrides == OverridesOf(last'.args)
       IN /\ DOMAIN last'.style = DOMAIN template.style \cup DOMAIN overrides
          /\ DOMAIN last'.config = DOMAIN template.config \cup DOMAIN overrides
          /\ \A f \in DOMAIN overrides :
               last'.style[f] = overrides[f] /\ last'.config[f] = overrides[f]
          /\ \A f \in DOMAIN template.style \ DOMAIN overrides :
               last'.style[f] = template.style[f]
          /\ \A f \in DOMAIN template.config \ DOMAIN overrides :
               last'.config[f] = template.config[f]
          /\ templates' = templates]_vars

C15_Witness ==
  /\ FromTemplate(last) /\ last.args.templateName = "custom" /\ ~last.isError
  /\ MapGet(templates, "custom").config.margin = 0
  /\ last.config.margin = 4 /\ last.config.size = 250
  /\ last.style.foregroundColor = "#000000"
  /\ last.style.backgroundColor = "#ffffff"

\* C16: the registry always holds the built-in templates business and
\* social; every template is stored under its own name and no name is
\* stored twice; addTemplate with a new name adds exactly that template,
\* with an existing name it replaces that template and the number of
\* templates stays; no step removes a name.
C16_RegistryKeyedByName ==
  [][/\ MapHas(templates', "business") /\ MapHas(templates', "social")
     /\ \A i \in 1..Len(templates') :
          /\ templates'[i].key = templates'[i].value.name
          /\ \A j \in 1..Len(templates') :
               templates'[i].key = templates'[j].key => i = j
     /\ \A i \in 1..Len(templates) : MapHas(templates', templates[i].key)
     /\ IF last'.tool = "addTemplate"
          THEN /\ MapGet(templates', last'.args.name) = last'.args
               /\ Len(templates') =
                    Len(templates)
                      + (IF MapHas(templates, last'.args.name) THEN 0 ELSE 1)
               /\ \A i \in 1..Len(templates) :
                    templates[i].key # last'.args.name
                      => templates'[i] = templates[i]
          ELSE templates' = templates]_vars

C16_Witness ==
  /\ last.tool = "addTemplate" /\ last.args.name = "business"
  /\ Len(templates) = 3
  /\ MapGet(templates, "business").style.cornerRadius = 0
  /\ MapGet(templates, "custom").config.size = 250

\* C17: a step that is not addTemplate - a generation, a template
\* generation, a decode, a statistics read, a listing - leaves the list
\* getTemplates returns as it was (same templates, same order), and a
\* listing returns that list; so two listings with no addTemplate between
\* them return equal lists.
C17_ListingIsStable ==
  [][/\ last'.tool # "addTemplate"
          => getTemplates(templates') = getTemplates(templates)
     /\ last'.tool = "list_qr_templates"
          => last'.result.templates = getTemplates(templates')]_vars

C17_Witness ==
  /\ last.tool = "list_qr_templates"
  /\ Len(last.result.templates) = 3
  /\ last.result.templates[1].name = "business"
  /\ last.result.templates[1].style.cornerRadius = 0
  /\ last.result.templates[3].name = "custom"
  /\ statistics.totalGenerated = 2

\* the styled generation of the step was asked for a logo that cannot be
\* applied: there is no file at logoPath, or the file is not a loadable image
LogoFails(l) ==
  /\ l.tool \in {"generate_qr_styled", "generate_qr_from_template",
                 "generate_qr_batch"}
  /\ l.called /\ Has(l.style, "logoPath")
  /\ ~(FsExists(l.style.logoPath) /\ LoadImageOk(l.style.logoPath))

WithoutLogo(style) == [f \in DOMAIN style \ {"logoPath", "logoSize"} |-> style[f]]

\* C18: a styled generation whose logo cannot be applied does what the same
\* generation without a logo does under the same external conditions: with
\* no other fault it returns success = true, writes the artifact and
\* records the statistics, and no logo is drawn.
C18_LogoFailureIsNotFatal ==
  [][LogoFails(last') =>
       /\ last'.logo = <<>>
       /\ (last'.fault = "none" /\ ~BadPayload(last'.payload))
            => (~last'.isError /\ last'.result.success
                  /\ Len(files') = Len(files) + 1
                  /\ statistics'.totalGenerated = statistics.totalGenerated + 1)
       /\ \E env \in GenEnv :
            LET out == generateStyled(statistics, Len(files), last'.payload,
                                      WithoutLogo(last'.style), last'.config, env)
            IN /\ env.fail = last'.fault
               /\ last'.isError = ~out.ok /\ last'.code = out.code
               /\ last'.result = out.result /\ last'.enc = out.enc
               /\ files' = files \o out.written
               /\ statistics'.totalGenerated = out.stats.totalGenerated
               /\ statistics'.byFormat = out.stats.byFormat
               /\ statistics'.sizes = out.stats.sizes
               /\ statistics'.generationTimes = out.stats.generationTimes]_vars

C18_Witness ==
  /\ LogoFails(last) /\ last.style.logoPath = "/corrupt-logo.png"
  /\ ~last.isError /\ last.result.success
  /\ last.written # <<>> /\ last.logo = <<>>
  /\ statistics.totalGenerated = 2

\* the WiFi payload grammar
\* WIFI:T:<security>;S:<ssid>;P:<password-or-empty>;H:<true|false>;;
\* for the credential a tool call gives (security defaults to WPA2)
ContractWiFi(a) ==
  <<"WIFI:T:", IF Has(a, "security") THEN a.security ELSE "WPA2", ";S:">>
    \o a.ssid \o <<";P:">>
    \o (IF Has(a, "password") THEN a.password ELSE <<>>)
    \o <<";H:">>
    \o (IF Has(a, "hidden") /\ a.hidden THEN <<"true">> ELSE <<"false">>)
    \o <<";;">>

\* C19: every credential that passes the schema is encoded, and the payload
\* is exactly the grammar's string: an absent (or empty) password gives an
\* empty P field, an absent or false hidden gives H:false.
C19_WiFiPayloadIsGrammar ==
  (last.tool = "generate_wifi_qr" /\ WiFiSchemaOk(last.args)) =>
    (last.called /\ last.payload = ContractWiFi(last.args))

C19_Witness ==
  /\ last.tool = "generate_wifi_qr" /\ ~last.isError
  /\ last.args = [ssid |-> <<"a">>, security |-> "nopass"]
  /\ last.payload =
       <<"WIFI:T:", "nopass", ";S:", "a", ";P:", ";H:", "false", ";;">>
  /\ files[Len(files)].content = last.payload

VCardTags == {"ORG:", "TITLE:", "TEL:", "EMAIL:", "URL:"}

\* the line starting at token k of payload p has an empty value: a tag
\* directly followed by the end of the line, or an ADR line whose five
\* components are all empty
EmptyLineAt(p, k) ==
  \/ p[k] \in VCardTags /\ k < Len(p) /\ p[k + 1] = "\n"
  \/ /\ p[k] = "ADR:;;" /\ k + 5 <= Len(p)
     /\ SubSeq(p, k + 1, k + 5) = <<";", ";", ";", ";", "\n">>

\* C20: the vCard payload of a contact record never contains a line whose
\* value is empty, whether its optional fields are absent, empty strings,
\* or an address with no sub-field.
C20_NoEmptyVCardLine ==
  (last.tool = "generate_vcard_qr" /\ last.called) =>
    \A k \in 1..Len(last.payload) : ~EmptyLineAt(last.payload, k)


\* C21: what getStatistics returned is a read-only snapshot: a write of the
\* caller into the returned object (its byFormat map, its sizes array)
\* leaves the accumulator as it was, and a generation after the snapshot
\* was handed out leaves what the holder reads in it as it was
C21_SnapshotIsReadOnly ==
  [][/\ last'.tool = "snapshot.write" => statistics' = statistics
     /\ snapshot.taken /\ last'.tool = "generate_qr_basic"
          => SnapshotView(snapshot', statistics')
               = SnapshotView(snapshot, statistics)]_vars

\* the artifact that a decode_qr_image call was given the path of
ArtifactAt(p) == {i \in 1..Len(files) : files[i].path = p}

\* C22: round trip: for any content within the length and character
\* constraints, decoding the raster artifact that a generation wrote for it
\* succeeds and returns exactly that content.
C22_RoundTrip ==
  (last.tool = "decode_qr_image" /\ Has(last.args, "imagePath")
     /\ Has(last.args.imagePath, "path")) =>
    \A i \in ArtifactAt(last.args.imagePath.path) :
      files[i].kind = "png" =>
        /\ ~last.isError
        /\ last.result.success
        /\ last.result.content = files[i].content

ErrorTypes == {"ValidationError", "GenerationError", "AnalysisError", "UnknownError"}

\* the type a response names for an error of a class
ContractLabel(code) ==
  IF code = "VALIDATION_ERROR" THEN "ValidationError"
  ELSE IF code = "GENERATION_ERROR" THEN "GenerationError"
  ELSE IF code = "ANALYSIS_ERROR" THEN "AnalysisError"
  ELSE "UnknownError"

\* C23 as stated: every call is answered, every error response names one of
\* the four error types, and a name that is no tool is answered with an
\* error response labelled UnknownError.
C23_ErrorResponsesNameTheirType ==
  last.tool # "none" =>
    /\ last.isError => last.errorType \in ErrorTypes
    /\ last.tool \notin ToolNames =>
         last.isError /\ last.errorType = "UnknownError"

\* C23: every call is answered with a response; an error that a handler
\* throws becomes a response with isError = true that names the type of the
\* error, a name that is no tool is answered with an error response labelled
\* UnknownError, and the only error response that names no type is the
\* failure that validate_qr_content reports itself.
C23_ThrownErrorsNameTheirType ==
  last.tool # "none" =>
    /\ last.code # "" =>
         last.isError /\ last.errorType = ContractLabel(last.code)
    /\ last.tool \notin ToolNames =>
         last.isError /\ last.errorType = "UnknownError"
    /\ (last.isError /\ last.errorType \notin ErrorTypes) =>
         (last.tool = "validate_qr_content" /\ last.code = "")

\* a missing image was answered with an AnalysisError
C23_Witness ==
  /\ last.tool = "decode_qr_image"
  /\ last.code = "ANALYSIS_ERROR"
  /\ last.isError /\ last.errorType = "AnalysisError"

GenerationTools ==
  {"generate_qr_basic", "generate_qr_styled", "generate_qr_batch",
   "generate_vcard_qr", "generate_wifi_qr", "generate_event_qr",
   "generate_qr_from_template"}

\* C25: in every successful generation result, on any path and for any
\* requested format, the extension of filePath equals result.format, and
\* result.format equals the requested format (png when none was requested).
C25_PathAndFormatAgree ==
  (last.tool \in GenerationTools /\ Generated(last)) =>
    /\ last.result.filePath.ext = last.result.format
    /\ last.result.format = (IF last.format = "" THEN "png" ELSE last.format)

RegisteredNames == {templates[i].key : i \in 1..Len(templates)}

\* C26: in every reachable state of the accumulator the per-format counters
\* sum to totalGenerated, the per-template counters sum to at most
\* totalGenerated, every key of byTemplate is the name of a registered
\* template, and the window of generation times and the window of sizes
\* have the same length, min(totalGenerated, 1000).
C26_StatisticsAreConsistent ==
  /\ SumOver(statistics.byFormat, DOMAIN statistics.byFormat)
       = statistics.totalGenerated
  /\ SumOver(statistics.byTemplate, DOMAIN statistics.byTemplate)
       <= statistics.totalGenerated
  /\ DOMAIN statistics.byTemplate \subseteq RegisteredNames
  /\ Len(statistics.generationTimes) = Len(statistics.sizes)
  /\ Len(statistics.sizes) = Min(statistics.totalGenerated, WindowLimit)

\* the windows are full and older samples were dropped, after generations
\* of more than one format and from a template
C26_Witness ==
  /\ statistics.totalGenerated > WindowLimit
  /\ Len(statistics.sizes) = WindowLimit
  /\ DOMAIN statistics.byTemplate # {}
  /\ "svg" \in DOMAIN statistics.byFormat

\* the call was analyze_qr_quality and it returned a result
Analyzed(l) == l.tool = "analyze_qr_quality" /\ ~l.isError

\* C27: analyzeQuality returns score 0, with readability poor and
\* success = false, exactly when decoding failed softly; when decoding
\* succeeded the score is one of 40, 50, 60, 70, 80, 90, 100, so it lies
\* within 0..100 and the clamp at 0 never changes it.
C27_ScoreZeroOnlyOnSoftFailure ==
  Analyzed(last) =>
    LET quality == last.result.quality
    IN /\ quality.score = 0 <=> ~last.result.success
       /\ ~last.result.success => quality.readability = "poor"
       /\ last.result.success =>
            quality.score \in {40, 50, 60, 70, 80, 90, 100}

\* an image without a symbol was analyzed
C27_Witness ==
  /\ Analyzed(last)
  /\ last.args.imagePath.exists /\ ~last.args.imagePath.hasQR
  /\ ~last.result.success
  /\ last.result.quality.score = 0

\* the tools and engine operations that only read or compute
ReadOnlyOperations ==
  {"decode_qr_image", "analyze_qr_quality", "list_qr_templates",
   "get_qr_statistics", "validate_qr_content", "optimize_qr_content"}

\* C28: decodeFromImage, analyzeQuality, getTemplates, getStatistics,
\* validate_qr_content and optimize_qr_content leave the statistics and the
\* template registry unchanged, whether they succeed or fail.
C28_ReadOnlyOperationsChangeNothing ==
  [][last'.tool \in ReadOnlyOperations =>
       /\ statistics' = statistics
       /\ templates' = templates
       /\ files' = files]_vars

\* a read-only operation failed after generations were counted
C28_Witness ==
  /\ last.tool = "validate_qr_content"
  /\ last.isError
  /\ statistics.totalGenerated = 2
  /\ Len(templates) = 2

\* C29: optimize_qr_content is idempotent: optimizing the content it
\* returned returns that content again, also for a URL given with
\* surrounding whitespace.
C29_OptimizeIsIdempotent ==
  (last.tool = "optimize_qr_content" /\ ~last.isError) =>
    optimizeContent(last.result.optimized).optimized = last.result.optimized

\* C30: validate_qr_content reports success exactly for the content that
\* validateContent accepts (non-empty after trimming, at most 4296
\* characters); the URL and email checks add recommendations and never
\* make the validation fail.
C30_ValidateToolAgreesWithValidator ==
  last.tool = "validate_qr_content" =>
    /\ ~last.isError <=>
         (Has(last.args, "content") /\ validateContent(last.args.content).ok)
    /\ ~last.isError <=>
         (/\ Has(last.args, "content")
          /\ Len(Trim(last.args.content)) > 0
          /\ StrLen(last.args.content) <= 4296)

\* content that is no URL was validated as a URL: accepted, with a
\* recommendation
C30_Witness ==
  /\ last.tool = "validate_qr_content"
  /\ last.args = [content |-> <<"L", "a">>, contentType |-> "url"]
  /\ ~last.isError
  /\ Len(last.result.recommendations) = 1


=============================================================================
